---------------------------- MODULE Spec2Model ----------------------------
(***************************************************************************)
(* A model of the recipe recommendation engine of src/Backend:             *)
(*   services/recipe_service.py        RecipeRecommendationService         *)
(*   algorithms/greedy_algorithm.py    GreedyRecipeMatcher                 *)
(*   algorithms/backtracking_algorithm.py  BacktrackingRecipeMatcher       *)
(*   algorithms/graph_algorithm.py     IngredientGraph                     *)
(*                                                                         *)
(* Conventions.                                                            *)
(*  - A Python str is a sequence of character codes (<<97>> is "a"), so    *)
(*    that str.lower() and the ordering of strings are computed.           *)
(*  - An Optional[T] is a sequence of length 0 (None) or 1 (<<v>>).        *)
(*  - A float is a fixed-point integer in units of 1/One; One is chosen so *)
(*    that every quotient computed over the catalog below is exact.        *)
(*  - A dict is the sequence of its values in insertion order (the order   *)
(*    Python iterates it in); a Python set is a set.                       *)
(***************************************************************************)
EXTENDS Integers, Sequences, FiniteSets, TLC

VARIABLES
    ingredients,       \* service.ingredients: Ingredient records, insertion order
    recipes,           \* service.recipes: Recipe records, insertion order
    ingredient_nodes,  \* ingredient_graph.ingredient_nodes, insertion order
    recipe_nodes,      \* ingredient_graph.recipe_nodes, insertion order
    graph_edges,       \* recipe_ingredient edges of ingredient_graph.graph
    request,           \* the RecipeSuggestionRequest of the call in progress / last call
    response,          \* what the last service call returned (or that it raised)
    search,            \* the BacktrackingRecipeMatcher and its _backtrack_search call stack
    call,              \* arguments of the pure function under examination
    result             \* its return value

vars == <<ingredients, recipes, ingredient_nodes, recipe_nodes, graph_edges,
          request, response, search, call, result>>

-----------------------------------------------------------------------------
(* Python values                                                           *)

\* float 1.0 in fixed point (2^4 * 3^2 * 5^5)
One == 16 * 9 * 3125

None == <<>>

Some(v) == <<v>>

\* Python truthiness of an Optional[int] / Optional[float]: None and 0 are falsy
TruthyNum(o) == o # None /\ o[1] # 0

\* Python truthiness of an Optional[str]: None and "" are falsy
TruthyStr(o) == o # None /\ o[1] # <<>>

\* the same for an Optional[str] whose values are kept as literal strings
TruthyText(o) == o # None /\ o[1] # ""

Min(a, b) == IF a <= b THEN a ELSE b

Max(a, b) == IF a >= b THEN a ELSE b

\* min(1.0, max(0.0, x))
Clamp01(x) == Min(One, Max(0, x))

\* str.lower() on ASCII: 'A'..'Z' (65..90) are moved to 'a'..'z'
Lower(s) == [i \in 1..Len(s) |-> IF s[i] \in 65..90 THEN s[i] + 32 ELSE s[i]]

\* s < t for Python strings (lexicographic by code point)
RECURSIVE StrLess(_, _)
StrLess(s, t) ==
    IF t = <<>> THEN FALSE
    ELSE IF s = <<>> THEN TRUE
    ELSE IF s[1] # t[1] THEN s[1] < t[1]
    ELSE StrLess(Tail(s), Tail(t))

Range(f) == {f[i] : i \in DOMAIN f}

\* the keys of a dict, in insertion order
Ids(d) == [i \in 1..Len(d) |-> d[i].id]

IdSet(d) == {d[i].id : i \in 1..Len(d)}

\* d[key], for a key of d
Lookup(d, key) == d[CHOOSE i \in 1..Len(d) : d[i].id = key]

\* d[obj.id] = obj with a new key taking the place of the entry added last
DictPutOverLast(d, obj) ==
    IF obj.id \in IdSet(d)
    THEN [i \in 1..Len(d) |-> IF d[i].id = obj.id THEN obj ELSE d[i]]
    ELSE IF d = <<>> THEN <<obj>>
    ELSE [d EXCEPT ![Len(d)] = obj]

\* d[obj.id] = obj: a new key is appended, an existing key keeps its place
DictPut(d, obj) ==
    IF obj.id \in IdSet(d)
    THEN [i \in 1..Len(d) |-> IF d[i].id = obj.id THEN obj ELSE d[i]]
    ELSE Append(d, obj)

-----------------------------------------------------------------------------
(* The catalog the store is filled from.  Strings: "a" <<97>>, "b" <<98>>, *)
(* "c" <<99>>, "o" <<111>>, "x" <<120>>, "X" <<88>>, "B" <<66>>,           *)
(* "v" <<118>>, "V" <<86>>, "i" <<105>>, "I" <<73>>.                       *)

\* Ingredient (models/ingredient.py): "a" is named "B" and has the alias "X"
IngA ==
    [id |-> <<97>>, name |-> <<66>>, category |-> "vegetable",
     aliases |-> << <<88>> >>, flavor_profile |-> <<3, 4, 0, 0, 0, 0>>,
     common_substitutes |-> << <<98>> >>, dietary_tags |-> << <<118>> >>,
     cost_level |-> Some(2)]

\* "b" is named "x"; its flavor is close to that of "a"
IngB ==
    [id |-> <<98>>, name |-> <<120>>, category |-> "vegetable",
     aliases |-> <<>>, flavor_profile |-> <<4, 3, 0, 0, 0, 0>>,
     common_substitutes |-> <<>>, dietary_tags |-> <<>>,
     cost_level |-> None]

\* "c" is a spice whose declared substitute "a" has an orthogonal flavor
IngC ==
    [id |-> <<99>>, name |-> <<67, 121>>, category |-> "spice",
     aliases |-> << <<99, 99>> >>, flavor_profile |-> <<0, 0, 5, 0, 0, 0>>,
     common_substitutes |-> << <<97>> >>, dietary_tags |-> << <<118>> >>,
     cost_level |-> Some(5)]

\* "a" as it is submitted again later, with another cost level
IngARevised == [IngA EXCEPT !.cost_level = Some(3)]

\* the ingredients the service is fed one by one; c is part of the stores
\* the matchers are called on directly
IngredientCatalog == {IngA, IngB, IngARevised}

\* RecipeIngredient (models/recipe.py)
Line(ingredient_id, is_optional, quantity) ==
    [ingredient_id |-> ingredient_id, is_optional |-> is_optional,
     quantity |-> quantity]

\* Recipe (models/recipe.py); the id of recipe k is "r" followed by the
\* character after "0" + k.  Recipe 1 needs a and b, c is optional; recipe 2
\* needs a, c and "o", which no catalog ingredient has as id; recipe 3 needs b;
\* every further recipe needs a only.
RecipeDef(k) ==
    CASE k = 1 ->
        [id |-> <<114, 49>>, cuisine |-> Some(<<73>>), meal_types |-> {"dinner"},
         difficulty |-> "beginner", prep_time_minutes |-> 10,
         cook_time_minutes |-> 20,
         ingredients |-> <<Line(<<97>>, FALSE, 200), Line(<<98>>, FALSE, 50),
                           Line(<<99>>, TRUE, 5)>>,
         dietary_tags |-> << <<86>> >>, equipment_needed |-> {"pan"},
         average_rating |-> Some((9 * One) \div 2),
         popularity_score |-> (3 * One) \div 2,
         ingredient_complexity_score |-> None]
      [] k = 2 ->
        [id |-> <<114, 50>>, cuisine |-> None, meal_types |-> {"lunch"},
         difficulty |-> "expert", prep_time_minutes |-> 60,
         cook_time_minutes |-> 90,
         ingredients |-> <<Line(<<97>>, FALSE, 100), Line(<<111>>, FALSE, 1),
                           Line(<<99>>, FALSE, 2)>>,
         dietary_tags |-> <<>>, equipment_needed |-> {"blender", "wok"},
         average_rating |-> Some((9 * One) \div 2),
         popularity_score |-> 3 * One,
         ingredient_complexity_score |-> Some((4 * One) \div 5)]
      [] k = 3 ->
        [id |-> <<114, 51>>, cuisine |-> Some(<<105>>), meal_types |-> {"dinner", "lunch"},
         difficulty |-> "intermediate", prep_time_minutes |-> 20,
         cook_time_minutes |-> 25,
         ingredients |-> <<Line(<<98>>, FALSE, 300)>>,
         dietary_tags |-> << <<118>> >>, equipment_needed |-> {},
         average_rating |-> None, popularity_score |-> 0,
         ingredient_complexity_score |-> None]
      [] OTHER ->
        [id |-> <<114, 48 + k>>, cuisine |-> None, meal_types |-> {"dinner"},
         difficulty |-> "beginner", prep_time_minutes |-> 15,
         cook_time_minutes |-> 30,
         ingredients |-> <<Line(<<97>>, FALSE, 100)>>,
         dietary_tags |-> <<>>, equipment_needed |-> {"pot"},
         average_rating |-> None, popularity_score |-> 0,
         ingredient_complexity_score |-> None]

\* how many catalog recipes the service is fed (bound)
MaxRecipes == 2

RecipeCatalog == {RecipeDef(k) : k \in 1..MaxRecipes}

-----------------------------------------------------------------------------
(* Name normalization.  The service and both matchers carry the same code. *)

\* the inner loop: the first ingredient, from position i on in dict order,
\* whose name or one of whose aliases equals name case-insensitively
RECURSIVE FirstNameOrAliasMatch(_, _, _)
FirstNameOrAliasMatch(ings, name, i) ==
    IF i > Len(ings) THEN {}
    ELSE IF \/ Lower(ings[i].name) = Lower(name)
            \/ Lower(name) \in {Lower(ings[i].aliases[j]) : j \in 1..Len(ings[i].aliases)}
         THEN {ings[i].id}
         ELSE FirstNameOrAliasMatch(ings, name, i + 1)

RECURSIVE FirstNameMatch(_, _, _)
FirstNameMatch(ings, name, i) ==
    IF i > Len(ings) THEN {}
    ELSE IF Lower(ings[i].name) = Lower(name) THEN {ings[i].id}
         ELSE FirstNameMatch(ings, name, i + 1)

\* a resolution that looks for a name match in the whole store before it
\* looks at any alias
ResolveNameBeforeAlias(ings, name) ==
    IF name \in IdSet(ings) THEN {name}
    ELSE IF FirstNameMatch(ings, name, 1) # {} THEN FirstNameMatch(ings, name, 1)
    ELSE FirstNameOrAliasMatch(ings, name, 1)

\* a resolution that keeps an entry it cannot resolve
ResolveNameKeepingUnknown(ings, name) ==
    IF name \in IdSet(ings) THEN {name}
    ELSE IF FirstNameOrAliasMatch(ings, name, 1) # {}
    THEN FirstNameOrAliasMatch(ings, name, 1)
    ELSE {name}

\* one iteration of "for name in ingredient_names": what it adds to normalized_ids
ResolveName(ings, name) ==
    IF name \in IdSet(ings) THEN {name} ELSE FirstNameOrAliasMatch(ings, name, 1)

\* RecipeRecommendationService._normalize_ingredient_identifiers
normalize_ingredient_identifiers(ings, ingredient_names) ==
    UNION {ResolveName(ings, name) : name \in ingredient_names}

\* GreedyRecipeMatcher._normalize_ingredient_identifiers
greedy_normalize_ingredient_identifiers(ings, ingredient_names) ==
    UNION {ResolveName(ings, name) : name \in ingredient_names}

\* BacktrackingRecipeMatcher._normalize_ingredient_identifiers
backtracking_normalize_ingredient_identifiers(ings, ingredient_names) ==
    UNION {ResolveName(ings, name) : name \in ingredient_names}

-----------------------------------------------------------------------------
(* Recipe helpers shared by the three matchers' set comprehensions         *)

\* {ri.ingredient_id for ri in recipe.ingredients if not ri.is_optional}
RequiredIngredients(recipe) ==
    {recipe.ingredients[i].ingredient_id :
        i \in {j \in 1..Len(recipe.ingredients) : ~recipe.ingredients[j].is_optional}}

\* {ri.ingredient_id for ri in recipe.ingredients if ri.is_optional}
OptionalIngredients(recipe) ==
    {recipe.ingredients[i].ingredient_id :
        i \in {j \in 1..Len(recipe.ingredients) : recipe.ingredients[j].is_optional}}

\* {ri.ingredient_id for ri in recipe.ingredients}
RecipeIngredientIds(recipe) ==
    {recipe.ingredients[i].ingredient_id : i \in 1..Len(recipe.ingredients)}

\* set(tag.lower() for tag in tags)
LowerSet(tags) == {Lower(tags[i]) : i \in 1..Len(tags)}

\* RecipeMatch (models/recipe.py); the three id lists are built from Python
\* sets, so their order is not fixed by the code: they are kept as sets
RecipeMatch(recipe, match_score, available, missing, substitutable, confidence, algorithm) ==
    [recipe |-> recipe, match_score |-> match_score,
     available_ingredients |-> available, missing_ingredients |-> missing,
     substitutable_ingredients |-> substitutable,
     confidence_score |-> confidence, algorithm_used |-> algorithm]

-----------------------------------------------------------------------------
(* GreedyRecipeMatcher (algorithms/greedy_algorithm.py)                    *)

\* _quick_filter_recipe: TRUE when the recipe passes the hard constraints
quick_filter_recipe(recipe, req) ==
    IF TruthyNum(req.max_prep_time) /\ recipe.prep_time_minutes > req.max_prep_time[1]
    THEN FALSE
    ELSE IF TruthyNum(req.max_cook_time) /\ recipe.cook_time_minutes > req.max_cook_time[1]
    THEN FALSE
    ELSE IF req.difficulty_level # None /\ recipe.difficulty # req.difficulty_level[1]
    THEN FALSE
    ELSE IF req.meal_type # None /\ req.meal_type[1] \notin recipe.meal_types
    THEN FALSE
    ELSE IF /\ req.dietary_preferences # <<>>
            /\ ~(LowerSet(req.dietary_preferences) \subseteq LowerSet(recipe.dietary_tags))
    THEN FALSE
    ELSE IF /\ req.exclude_ingredients # <<>>
            /\ RecipeIngredientIds(recipe) \cap Range(req.exclude_ingredients) # {}
    THEN FALSE
    ELSE TRUE

\* the bonuses of _calculate_greedy_score after the hard cutoff (lines 132-151)
GreedyBonuses(recipe, req) ==
    LET popularity == IF recipe.popularity_score > 0
                      THEN Min(recipe.popularity_score \div 10, One \div 5)
                      ELSE 0
        rating == IF TruthyNum(recipe.average_rating)
                  THEN (recipe.average_rating[1] * 3) \div 100
                  ELSE 0
        cuisine == IF /\ TruthyStr(req.cuisine_preference)
                      /\ TruthyStr(recipe.cuisine)
                      /\ Lower(recipe.cuisine[1]) = Lower(req.cuisine_preference[1])
                   THEN (15 * One) \div 100
                   ELSE 0
        total_time == recipe.prep_time_minutes + recipe.cook_time_minutes
        time == IF total_time <= 30 THEN One \div 10
                ELSE IF total_time > 120 THEN -(One \div 10)
                ELSE 0
    IN  popularity + rating + cuisine + time

calculate_greedy_score_hard_cutoff_removed(recipe, available_ingredients, req) ==
    LET required_ingredients == RequiredIngredients(recipe)
        optional_ingredients == OptionalIngredients(recipe)
        nreq == Cardinality(required_ingredients)
        ndirect == Cardinality(available_ingredients \cap required_ingredients)
        nopt == Cardinality(optional_ingredients)
        ndirectopt == Cardinality(available_ingredients \cap optional_ingredients)
        base_score == (ndirect * ndirect * One) \div (nreq * nreq)
        optional_bonus == IF nopt # 0 THEN (ndirectopt * One) \div (nopt * 10) ELSE 0
        missing_count == nreq - ndirect
        missing_penalty == (missing_count * 3 * One) \div (Max(nreq, 1) * 10)
    IN  IF nreq = 0 THEN One
        ELSE Clamp01(base_score + optional_bonus - missing_penalty
                     + GreedyBonuses(recipe, req))

\* _calculate_greedy_score
calculate_greedy_score(recipe, available_ingredients, req) ==
    LET required_ingredients == RequiredIngredients(recipe)
        optional_ingredients == OptionalIngredients(recipe)
        nreq == Cardinality(required_ingredients)
        ndirect == Cardinality(available_ingredients \cap required_ingredients)
        nopt == Cardinality(optional_ingredients)
        ndirectopt == Cardinality(available_ingredients \cap optional_ingredients)
        \* required_match_ratio * required_match_ratio
        base_score == (ndirect * ndirect * One) \div (nreq * nreq)
        optional_bonus == IF nopt # 0 THEN (ndirectopt * One) \div (nopt * 10) ELSE 0
        missing_count == nreq - ndirect
        missing_penalty == (missing_count * 3 * One) \div (Max(nreq, 1) * 10)
    IN  IF nreq = 0 THEN One
        ELSE IF missing_count > req.max_missing_ingredients THEN 0
        ELSE Clamp01(base_score + optional_bonus - missing_penalty
                     + GreedyBonuses(recipe, req))

\* _quick_dietary_check
quick_dietary_check(ingredient1, ingredient2) ==
    LET tags1 == Range(ingredient1.dietary_tags)
        tags2 == Range(ingredient2.dietary_tags)
    IN  tags1 \cap tags2 # {} \/ (tags1 = {} /\ tags2 = {})

\* _find_greedy_substitutes: the keys of the dict it returns.  Which available
\* id becomes the value depends on the iteration order of a Python set; the
\* callers use the keys only.
find_greedy_substitutes(ings, missing_ingredients, available_ingredients) ==
    {missing_id \in missing_ingredients \cap IdSet(ings) :
        LET missing_ingredient == Lookup(ings, missing_id)
        IN  \/ \E j \in 1..Len(missing_ingredient.common_substitutes) :
                   missing_ingredient.common_substitutes[j] \in available_ingredients
            \/ \E available_id \in available_ingredients \cap IdSet(ings) :
                   /\ missing_ingredient.category = Lookup(ings, available_id).category
                   /\ quick_dietary_check(missing_ingredient, Lookup(ings, available_id))}

basic_equipment == {"oven", "stove", "pan", "pot", "knife", "cutting board"}

refine_score_unclamped(initial_score, recipe, missing_required, substitutable) ==
    LET substitute_bonus ==
            IF substitutable # {}
            THEN (Cardinality(substitutable) * 2 * One)
                     \div (Max(Cardinality(missing_required), 1) * 10)
            ELSE 0
        complexity_penalty ==
            IF /\ TruthyNum(recipe.ingredient_complexity_score)
               /\ Cardinality(missing_required) > 2
               /\ recipe.ingredient_complexity_score[1] > (7 * One) \div 10
            THEN One \div 10
            ELSE 0
        advanced_equipment == recipe.equipment_needed \ basic_equipment
        equipment_penalty == (Cardinality(advanced_equipment) * 5 * One) \div 100
    IN  initial_score + substitute_bonus - complexity_penalty - equipment_penalty

\* _refine_score (direct_matches and request are not read by the code)
refine_score(initial_score, recipe, missing_required, substitutable) ==
    Clamp01(refine_score_unclamped(initial_score, recipe, missing_required, substitutable))

\* _calculate_confidence without its final max(0.0, ...)
greedy_calculate_confidence_without_floor(score, missing_count, total_required) ==
    LET reduced == IF total_required > 0
                   THEN score - (missing_count * 25 * One) \div (total_required * 100)
                   ELSE score
        boosted == IF score > (8 * One) \div 10
                   THEN Min(One, reduced + One \div 10)
                   ELSE reduced
    IN  Min(One, (boosted * 95) \div 100)

\* GreedyRecipeMatcher._calculate_confidence
greedy_calculate_confidence(score, missing_count, total_required) ==
    LET reduced == IF total_required > 0
                   THEN score - (missing_count * 25 * One) \div (total_required * 100)
                   ELSE score
        boosted == IF score > (8 * One) \div 10
                   THEN Min(One, reduced + One \div 10)
                   ELSE reduced
    IN  Max(0, Min(One, (boosted * 95) \div 100))

\* _create_detailed_match, for a recipe of the store
create_detailed_match(ings, recipe, available_ingredients, initial_score) ==
    LET required_ingredients == RequiredIngredients(recipe)
        optional_ingredients == OptionalIngredients(recipe)
        all_recipe_ingredients == required_ingredients \cup optional_ingredients
        direct_matches == available_ingredients \cap all_recipe_ingredients
        missing_required == required_ingredients \ available_ingredients
        substitutable == find_greedy_substitutes(ings, missing_required, available_ingredients)
        refined_score == refine_score(initial_score, recipe, missing_required, substitutable)
        confidence == greedy_calculate_confidence(refined_score,
                          Cardinality(missing_required), Cardinality(required_ingredients))
    IN  RecipeMatch(recipe, refined_score, direct_matches, missing_required,
                    substitutable, confidence, "greedy")

\* (-score, recipe_id) tuple order of the heap: e is popped before f
HeapBefore(e, f) ==
    e.score > f.score \/ (e.score = f.score /\ StrLess(e.recipe_id, f.recipe_id))

\* the "while recipe_scores and ..." loop of find_recipes_greedy
RECURSIVE ExtractTopCandidates(_, _, _, _, _, _, _)
ExtractTopCandidates(recs, ings, heap, matches, processed_count, available, max_results) ==
    IF heap = {} \/ Len(matches) >= max_results \/ processed_count >= max_results * 2
    THEN matches
    ELSE LET top == CHOOSE e \in heap : \A f \in heap \ {e} : HeapBefore(e, f)
             match == create_detailed_match(ings, Lookup(recs, top.recipe_id),
                                            available, top.score)
         IN  ExtractTopCandidates(recs, ings, heap \ {top}, Append(matches, match),
                                  processed_count + 1, available, max_results)

\* the "for recipe_id, recipe in self.recipes.items()" loop of
\* find_recipes_greedy: the (score, recipe_id) entries pushed on the heap
ScoredCandidates(recs, available_ingredient_ids, req) ==
    LET scored == {i \in 1..Len(recs) :
                     /\ quick_filter_recipe(recs[i], req)
                     /\ calculate_greedy_score(recs[i], available_ingredient_ids, req)
                            > One \div 10}
    IN  {[score |-> calculate_greedy_score(recs[i], available_ingredient_ids, req),
          recipe_id |-> recs[i].id] : i \in scored}

\* processed_count when the "while recipe_scores and ..." loop ends: every
\* popped recipe_id is a key of self.recipes, so each pass appends a match
RECURSIVE ProcessedCount(_, _, _, _)
ProcessedCount(heap_size, matches_len, processed_count, max_results) ==
    IF heap_size = 0 \/ matches_len >= max_results \/ processed_count >= max_results * 2
    THEN processed_count
    ELSE ProcessedCount(heap_size - 1, matches_len + 1, processed_count + 1, max_results)

\* find_recipes_greedy
find_recipes_greedy(recs, ings, req, max_results) ==
    ExtractTopCandidates(recs, ings,
        ScoredCandidates(recs,
            greedy_normalize_ingredient_identifiers(ings, Range(req.available_ingredients)),
            req),
        <<>>, 0,
        greedy_normalize_ingredient_identifiers(ings, Range(req.available_ingredients)),
        max_results)

-----------------------------------------------------------------------------
(* list.sort(key=..., reverse=True): descending and stable                 *)

\* an insertion that puts x in front of the elements with an equal key
RECURSIVE InsertDescendingBeforeEqual(_, _)
InsertDescendingBeforeEqual(xs, x) ==
    IF xs = <<>> THEN <<x>>
    ELSE IF xs[1].match_score > x.match_score
         THEN <<xs[1]>> \o InsertDescendingBeforeEqual(Tail(xs), x)
         ELSE <<x>> \o xs

\* xs is sorted; x goes behind every element whose key is >= its own
RECURSIVE InsertDescending(_, _)
InsertDescending(xs, x) ==
    IF xs = <<>> THEN <<x>>
    ELSE IF xs[1].match_score >= x.match_score
         THEN <<xs[1]>> \o InsertDescending(Tail(xs), x)
         ELSE <<x>> \o xs

RECURSIVE SortByScoreDescending(_)
SortByScoreDescending(xs) ==
    IF xs = <<>> THEN <<>>
    ELSE InsertDescending(SortByScoreDescending(SubSeq(xs, 1, Len(xs) - 1)), xs[Len(xs)])

\* a slice that keeps one entry more than asked for
TakeOneMore(xs, n) == SubSeq(xs, 1, Min(Len(xs), n + 1))

\* xs[:n]
Take(xs, n) == SubSeq(xs, 1, Min(n, Len(xs)))

-----------------------------------------------------------------------------
(* BacktrackingRecipeMatcher (algorithms/backtracking_algorithm.py)        *)

\* self.max_explorations
max_explorations == 10000

\* _filter_recipes_by_constraints: the recipes kept, in dict order
RECURSIVE filter_recipes_by_constraints(_, _)
filter_recipes_by_constraints(recs, req) ==
    IF recs = <<>> THEN <<>>
    ELSE LET recipe == recs[1]
             keep ==
                /\ ~(TruthyNum(req.max_prep_time)
                        /\ recipe.prep_time_minutes > req.max_prep_time[1])
                /\ ~(TruthyNum(req.max_cook_time)
                        /\ recipe.cook_time_minutes > req.max_cook_time[1])
                /\ ~(req.difficulty_level # None
                        /\ recipe.difficulty # req.difficulty_level[1])
                /\ ~(req.meal_type # None /\ req.meal_type[1] \notin recipe.meal_types)
                /\ ~(/\ TruthyStr(req.cuisine_preference)
                     /\ TruthyStr(recipe.cuisine)
                     /\ Lower(recipe.cuisine[1]) # Lower(req.cuisine_preference[1]))
         IN  (IF keep THEN <<recipe>> ELSE <<>>)
                 \o filter_recipes_by_constraints(Tail(recs), req)

\* _check_dietary_compatibility
check_dietary_compatibility(recipe, dietary_preferences) ==
    LowerSet(dietary_preferences) \subseteq LowerSet(recipe.dietary_tags)

\* _is_recipe_viable
is_recipe_viable(recs, recipe_id, available_ingredients, req) ==
    IF recipe_id \notin IdSet(recs) THEN FALSE
    ELSE LET recipe == Lookup(recs, recipe_id)
         IN  IF /\ req.dietary_preferences # <<>>
                /\ ~check_dietary_compatibility(recipe, req.dietary_preferences)
             THEN FALSE
             ELSE IF /\ req.exclude_ingredients # <<>>
                     /\ RecipeIngredientIds(recipe) \cap Range(req.exclude_ingredients) # {}
             THEN FALSE
             ELSE IF Cardinality(RequiredIngredients(recipe) \ available_ingredients)
                        > req.max_missing_ingredients
             THEN FALSE
             ELSE TRUE

\* _calculate_backtracking_score
calculate_backtracking_score(recipe, available_ingredients, req) ==
    LET required_ingredients == RequiredIngredients(recipe)
        all_recipe_ingredients == required_ingredients \cup OptionalIngredients(recipe)
        direct_matches == available_ingredients \cap all_recipe_ingredients
        direct_required_matches == available_ingredients \cap required_ingredients
        nreq == Cardinality(required_ingredients)
        required_match_ratio == (Cardinality(direct_required_matches) * One) \div nreq
        optional_ingredients == all_recipe_ingredients \ required_ingredients
        optional_bonus ==
            IF optional_ingredients # {}
            THEN (Cardinality(direct_matches \cap optional_ingredients) * 15 * One)
                     \div (Cardinality(optional_ingredients) * 100)
            ELSE 0
        complexity_penalty ==
            IF req.difficulty_level # None /\ recipe.difficulty # req.difficulty_level[1]
            THEN One \div 10 ELSE 0
        prep == IF TruthyNum(req.max_prep_time)
                THEN IF recipe.prep_time_minutes <= req.max_prep_time[1]
                     THEN One \div 20 ELSE -(One \div 5)
                ELSE 0
        cook == IF TruthyNum(req.max_cook_time)
                THEN IF recipe.cook_time_minutes <= req.max_cook_time[1]
                     THEN One \div 20 ELSE -(One \div 5)
                ELSE 0
        cuisine == IF /\ TruthyStr(req.cuisine_preference)
                      /\ TruthyStr(recipe.cuisine)
                      /\ Lower(recipe.cuisine[1]) = Lower(req.cuisine_preference[1])
                   THEN One \div 10 ELSE 0
        meal == IF req.meal_type # None /\ req.meal_type[1] \in recipe.meal_types
                THEN One \div 10 ELSE 0
    IN  IF nreq = 0 THEN One
        ELSE Clamp01(required_match_ratio + optional_bonus - complexity_penalty
                     + prep + cook + cuisine + meal)

\* _check_dietary_tags_compatibility
check_dietary_tags_compatibility(ingredient1, ingredient2) ==
    LET tags1 == Range(ingredient1.dietary_tags)
        tags2 == Range(ingredient2.dietary_tags)
    IN  tags1 \subseteq tags2 \/ tags2 \subseteq tags1

\* _find_substitutable_ingredients: the keys of the dict it returns (the values
\* depend on the iteration order of a Python set and are not read)
find_substitutable_ingredients(ings, missing_ingredients, available_ingredients) ==
    {missing_id \in missing_ingredients \cap IdSet(ings) :
        LET missing_ingredient == Lookup(ings, missing_id)
        IN  \/ \E j \in 1..Len(missing_ingredient.common_substitutes) :
                   missing_ingredient.common_substitutes[j] \in available_ingredients
            \/ \E available_id \in available_ingredients \cap IdSet(ings) :
                   /\ missing_ingredient.category = Lookup(ings, available_id).category
                   /\ check_dietary_tags_compatibility(missing_ingredient,
                                                       Lookup(ings, available_id))}

\* _calculate_confidence_score
calculate_confidence_score(match_score, missing_count, total_required) ==
    LET reduced == IF total_required > 0
                   THEN match_score - (missing_count * 3 * One) \div (total_required * 10)
                   ELSE match_score
        boosted == IF match_score > (9 * One) \div 10
                   THEN Min(One, reduced + One \div 10)
                   ELSE reduced
    IN  Max(0, Min(One, boosted))

\* _create_recipe_match, for a recipe of the store
create_recipe_match(ings, recipe, available_ingredients, req) ==
    LET required_ingredients == RequiredIngredients(recipe)
        all_recipe_ingredients == required_ingredients \cup OptionalIngredients(recipe)
        direct_matches == available_ingredients \cap all_recipe_ingredients
        missing_required == required_ingredients \ available_ingredients
        match_score == calculate_backtracking_score(recipe, available_ingredients, req)
        substitutable ==
            find_substitutable_ingredients(ings, missing_required, available_ingredients)
        confidence_score == calculate_confidence_score(match_score,
                                Cardinality(missing_required),
                                Cardinality(required_ingredients))
    IN  RecipeMatch(recipe, match_score, direct_matches, missing_required,
                    substitutable, confidence_score, "backtracking")

\* _evaluate_solution: best_matches after "for recipe_id in solution", from
\* position i of the solution on
RECURSIVE evaluate_solution(_, _, _, _, _, _, _)
evaluate_solution(recs, ings, best_matches, solution, i, available_ingredients, req) ==
    IF i > Len(solution) THEN best_matches
    ELSE LET recipe_id == solution[i]
             match == create_recipe_match(ings, Lookup(recs, recipe_id),
                                          available_ingredients, req)
             existing_ids == {best_matches[j].recipe.id : j \in 1..Len(best_matches)}
             added == IF /\ recipe_id \in IdSet(recs)
                         /\ match.match_score > One \div 10
                         /\ recipe_id \notin existing_ids
                      THEN Append(best_matches, match)
                      ELSE best_matches
         IN  evaluate_solution(recs, ings, added, solution, i + 1,
                               available_ingredients, req)

-----------------------------------------------------------------------------
(* find_optimal_recipes as a machine: one frame of `stack` per active      *)
(* invocation of _backtrack_search.  pc of a frame: "entry" (called, line   *)
(* 72 not yet run), "include" (inside the call of line 94), "skip" (inside  *)
(* the call of line 102).  nodes_visited counts the invocations that got    *)
(* past the exploration-limit check of line 74, early_returns those that   *)
(* returned at line 87.                                                    *)

\* BacktrackingRecipeMatcher.__init__
NewBacktrackingMatcher ==
    [phase |-> "idle", candidate_recipes |-> <<>>, available_ingredients |-> {},
     max_results |-> 0, current_solution |-> <<>>, stack |-> <<>>,
     best_matches |-> <<>>, exploration_count |-> 0, nodes_visited |-> 0,
     early_returns |-> 0]

Frame(current_index, pc) == [current_index |-> current_index, pc |-> pc]

Pop(stack) == SubSeq(stack, 1, Len(stack) - 1)

Top(stack) == stack[Len(stack)]

ReplaceTop(stack, frame) == Append(Pop(stack), frame)

\* find_optimal_recipes, lines 28-52: reset, normalize, filter, first call
StartSearch(recs, ings, req, max_results) ==
    LET candidates == Ids(filter_recipes_by_constraints(recs, req))
    IN  [phase |-> IF candidates = <<>> THEN "returned" ELSE "searching",
         candidate_recipes |-> candidates,
         available_ingredients |->
             backtracking_normalize_ingredient_identifiers(ings,
                 Range(req.available_ingredients)),
         max_results |-> max_results,
         current_solution |-> <<>>,
         stack |-> IF candidates = <<>> THEN <<>> ELSE <<Frame(0, "entry")>>,
         best_matches |-> <<>>,
         exploration_count |-> 0,
         nodes_visited |-> 0,
         early_returns |-> 0]

\* the early termination test demanding more than twice max_results matches
EarlyTerminationAboveTwice(s) ==
    /\ Len(s.best_matches) > s.max_results * 2
    /\ \A j \in 1..Len(s.best_matches) : s.best_matches[j].match_score > (8 * One) \div 10

\* the early termination test of lines 84-87
EarlyTermination(s) ==
    /\ Len(s.best_matches) >= s.max_results * 2
    /\ \A j \in 1..Len(s.best_matches) : s.best_matches[j].match_score > (8 * One) \div 10

\* _backtrack_search testing the limit on the count it had before this invocation
EnterInvocationLateLimit(recs, ings, req, s) ==
    LET frame == Top(s.stack)
        counted == [s EXCEPT !.exploration_count = @ + 1]
        visited == [counted EXCEPT !.nodes_visited = @ + 1]
        recipe_id == s.candidate_recipes[frame.current_index + 1]
    IN  IF s.exploration_count > max_explorations
        THEN [counted EXCEPT !.stack = Pop(@)]
        ELSE IF \/ Len(s.current_solution) >= s.max_results
                \/ frame.current_index >= Len(s.candidate_recipes)
        THEN [visited EXCEPT
                 !.best_matches =
                     IF s.current_solution # <<>>
                     THEN evaluate_solution(recs, ings, @, s.current_solution, 1,
                                            s.available_ingredients, req)
                     ELSE @,
                 !.stack = Pop(@)]
        ELSE IF EarlyTermination(s)
        THEN [visited EXCEPT !.stack = Pop(@), !.early_returns = @ + 1]
        ELSE IF is_recipe_viable(recs, recipe_id, s.available_ingredients, req)
        THEN [visited EXCEPT
                 !.current_solution = Append(@, recipe_id),
                 !.stack = Append(ReplaceTop(@, Frame(frame.current_index, "include")),
                                  Frame(frame.current_index + 1, "entry"))]
        ELSE [visited EXCEPT
                 !.stack = Append(ReplaceTop(@, Frame(frame.current_index, "skip")),
                                  Frame(frame.current_index + 1, "entry"))]

\* _backtrack_search from its entry up to its first recursive call or return
EnterInvocation(recs, ings, req, s) ==
    LET frame == Top(s.stack)
        counted == [s EXCEPT !.exploration_count = @ + 1]
        visited == [counted EXCEPT !.nodes_visited = @ + 1]
        recipe_id == s.candidate_recipes[frame.current_index + 1]
    IN  IF counted.exploration_count > max_explorations
        THEN [counted EXCEPT !.stack = Pop(@)]
        ELSE IF \/ Len(s.current_solution) >= s.max_results
                \/ frame.current_index >= Len(s.candidate_recipes)
        THEN [visited EXCEPT
                 !.best_matches =
                     IF s.current_solution # <<>>
                     THEN evaluate_solution(recs, ings, @, s.current_solution, 1,
                                            s.available_ingredients, req)
                     ELSE @,
                 !.stack = Pop(@)]
        ELSE IF EarlyTermination(s)
        THEN [visited EXCEPT !.stack = Pop(@), !.early_returns = @ + 1]
        ELSE IF is_recipe_viable(recs, recipe_id, s.available_ingredients, req)
        THEN [visited EXCEPT
                 !.current_solution = Append(@, recipe_id),
                 !.stack = Append(ReplaceTop(@, Frame(frame.current_index, "include")),
                                  Frame(frame.current_index + 1, "entry"))]
        ELSE [visited EXCEPT
                 !.stack = Append(ReplaceTop(@, Frame(frame.current_index, "skip")),
                                  Frame(frame.current_index + 1, "entry"))]

\* _backtrack_search returning after its include branch, without the call of
\* line 102
ResumeInvocationWithoutSkip(s) ==
    LET frame == Top(s.stack)
    IN  IF frame.pc = "include"
        THEN [s EXCEPT !.current_solution = Pop(@), !.stack = Pop(@)]
        ELSE [s EXCEPT !.stack = Pop(@)]

\* _backtrack_search resuming without the current_solution.pop() of line 99
ResumeInvocationWithoutPop(s) ==
    LET frame == Top(s.stack)
    IN  IF frame.pc = "include"
        THEN [s EXCEPT
                 !.stack = Append(ReplaceTop(@, Frame(frame.current_index, "skip")),
                                  Frame(frame.current_index + 1, "entry"))]
        ELSE [s EXCEPT !.stack = Pop(@)]

\* _backtrack_search after one of its recursive calls has returned
ResumeInvocation(s) ==
    LET frame == Top(s.stack)
    IN  IF frame.pc = "include"
        THEN [s EXCEPT
                 !.current_solution = Pop(@),
                 !.stack = Append(ReplaceTop(@, Frame(frame.current_index, "skip")),
                                  Frame(frame.current_index + 1, "entry"))]
        ELSE [s EXCEPT !.stack = Pop(@)]

\* find_optimal_recipes, line 55: the first call has returned
FinishSearch(s) ==
    [s EXCEPT !.phase = "returned",
              !.best_matches = SortByScoreDescending(@)]

SearchStep(recs, ings, req, s) ==
    IF s.stack = <<>> THEN FinishSearch(s)
    ELSE IF Top(s.stack).pc = "entry" THEN EnterInvocation(recs, ings, req, s)
    ELSE ResumeInvocation(s)

RECURSIVE RunSearch(_, _, _, _)
RunSearch(recs, ings, req, s) ==
    IF s.phase = "returned" THEN s
    ELSE RunSearch(recs, ings, req, SearchStep(recs, ings, req, s))

\* what find_optimal_recipes returns once the matcher is in phase "returned"
\* (line 41 or line 61)
SearchResult(s) == Take(s.best_matches, s.max_results)

\* find_optimal_recipes, run to completion
find_optimal_recipes(recs, ings, req, max_results) ==
    SearchResult(RunSearch(recs, ings, req, StartSearch(recs, ings, req, max_results)))

\* BacktrackingRecipeMatcher.get_algorithm_insights
get_algorithm_insights(s) ==
    [algorithm |-> "backtracking",
     explorations_performed |-> s.exploration_count,
     max_explorations_limit |-> max_explorations,
     solutions_found |-> Len(s.best_matches),
     search_completeness |->
         IF s.exploration_count < max_explorations THEN "exhaustive" ELSE "limited",
     optimization_approach |-> "global_optimal"]

-----------------------------------------------------------------------------
(* IngredientGraph (algorithms/graph_algorithm.py)                         *)

\* the largest r with r * r <= n
RECURSIVE ISqrtFrom(_, _)
ISqrtFrom(n, r) == IF (r + 1) * (r + 1) > n THEN r ELSE ISqrtFrom(n, r + 1)

Dot(p, q) ==
    p[1] * q[1] + p[2] * q[2] + p[3] * q[3] + p[4] * q[4] + p[5] * q[5] + p[6] * q[6]

\* a cosine that divides by the square of the first row's norm
cosine_similarity_by_first_norm(p, q) ==
    LET np == ISqrtFrom(Dot(p, p), 0)
    IN  IF np = 0 THEN 0 ELSE (Dot(p, q) * One) \div (np * np)

\* sklearn's cosine_similarity of two rows: each row is divided by its norm, a
\* zero row is left as it is; the catalog's profiles have integer norms
cosine_similarity(p, q) ==
    LET np == ISqrtFrom(Dot(p, p), 0)
        nq == ISqrtFrom(Dot(q, q), 0)
    IN  IF np = 0 \/ nq = 0 THEN 0 ELSE (Dot(p, q) * One) \div (np * nq)

\* calculate_flavor_similarity
calculate_flavor_similarity(nodes, ingredient1_id, ingredient2_id) ==
    IF ingredient1_id \notin IdSet(nodes) \/ ingredient2_id \notin IdSet(nodes)
    THEN 0
    ELSE Max(0, cosine_similarity(Lookup(nodes, ingredient1_id).flavor_profile,
                                  Lookup(nodes, ingredient2_id).flavor_profile))

\* substitutes.sort(key=lambda x: x[1], reverse=True) on (id, score) tuples
RECURSIVE InsertPairDescending(_, _)
InsertPairDescending(xs, x) ==
    IF xs = <<>> THEN <<x>>
    ELSE IF xs[1][2] >= x[2]
         THEN <<xs[1]>> \o InsertPairDescending(Tail(xs), x)
         ELSE <<x>> \o xs

RECURSIVE SortPairsDescending(_)
SortPairsDescending(xs) ==
    IF xs = <<>> THEN <<>>
    ELSE InsertPairDescending(SortPairsDescending(SubSeq(xs, 1, Len(xs) - 1)), xs[Len(xs)])

\* the "for substitute_id in target_ingredient.common_substitutes" loop
RECURSIVE DirectSubstitutes(_, _, _, _)
DirectSubstitutes(nodes, ingredient_id, common_substitutes, available_ingredients) ==
    IF common_substitutes = <<>> THEN <<>>
    ELSE (IF common_substitutes[1] \in available_ingredients
          THEN << <<common_substitutes[1],
                    calculate_flavor_similarity(nodes, ingredient_id, common_substitutes[1])>> >>
          ELSE <<>>)
         \o DirectSubstitutes(nodes, ingredient_id, Tail(common_substitutes),
                              available_ingredients)

\* the combined_score of one scanned ingredient (lines 124-137)
CombinedScore(nodes, ingredient_id, available_id) ==
    LET target_ingredient == Lookup(nodes, ingredient_id)
        available_ingredient == Lookup(nodes, available_id)
        flavor_similarity == calculate_flavor_similarity(nodes, ingredient_id, available_id)
        with_category == IF target_ingredient.category = available_ingredient.category
                         THEN (flavor_similarity * 12) \div 10
                         ELSE flavor_similarity
        dietary_compatible ==
            Range(target_ingredient.dietary_tags)
                \ Range(available_ingredient.dietary_tags) = {}
    IN  IF dietary_compatible THEN with_category ELSE (with_category * 7) \div 10

\* the "for available_id in available_ingredients" loop, the set being
\* iterated in the order `scan`
RECURSIVE CategorySubstitutes(_, _, _)
CategorySubstitutes(nodes, ingredient_id, scan) ==
    IF scan = <<>> THEN <<>>
    ELSE (IF /\ scan[1] \in IdSet(nodes)
             /\ CombinedScore(nodes, ingredient_id, scan[1]) > (3 * One) \div 10
          THEN << <<scan[1], CombinedScore(nodes, ingredient_id, scan[1])>> >>
          ELSE <<>>)
         \o CategorySubstitutes(nodes, ingredient_id, Tail(scan))

\* find_ingredient_substitutes returning the whole sorted list
find_ingredient_substitutes_untruncated(nodes, ingredient_id, available_ingredients, scan) ==
    IF ingredient_id \notin IdSet(nodes) THEN <<>>
    ELSE SortPairsDescending(
             DirectSubstitutes(nodes, ingredient_id,
                 Lookup(nodes, ingredient_id).common_substitutes,
                 available_ingredients)
             \o CategorySubstitutes(nodes, ingredient_id, scan))

\* find_ingredient_substitutes; scan is the order in which Python iterates
\* the set available_ingredients
find_ingredient_substitutes(nodes, ingredient_id, available_ingredients, scan) ==
    IF ingredient_id \notin IdSet(nodes) THEN <<>>
    ELSE Take(SortPairsDescending(
                  DirectSubstitutes(nodes, ingredient_id,
                      Lookup(nodes, ingredient_id).common_substitutes,
                      available_ingredients)
                  \o CategorySubstitutes(nodes, ingredient_id, scan)), 5)

\* one of the orders in which a set can be iterated
RECURSIVE AnOrderOf(_)
AnOrderOf(S) ==
    IF S = {} THEN <<>>
    ELSE LET x == CHOOSE y \in S : TRUE IN <<x>> \o AnOrderOf(S \ {x})

\* the score of the best substitute of each missing id that has one
\* (substitutable_ingredients of calculate_recipe_match_score); the score of
\* substitutes[0] is the largest of the list whatever the iteration order
BestSubstituteScores(nodes, missing_required, available_ingredients) ==
    LET subs(missing_id) == find_ingredient_substitutes(nodes, missing_id,
                                available_ingredients, AnOrderOf(available_ingredients))
        keys == {missing_id \in missing_required : subs(missing_id) # <<>>}
    IN  [missing_id \in keys |-> subs(missing_id)[1][2]]

RECURSIVE SumOver(_, _)
SumOver(f, keys) ==
    IF keys = {} THEN 0
    ELSE LET k == CHOOSE x \in keys : TRUE IN f[k] + SumOver(f, keys \ {k})

\* calculate_recipe_match_score reporting every missing required id, substitutable or not
calculate_recipe_match_score_all_missing(nodes, recipe, available_ingredients) ==
    LET required_ingredients == RequiredIngredients(recipe)
        optional_ingredients == OptionalIngredients(recipe)
        all_recipe_ingredients == required_ingredients \cup optional_ingredients
        direct_matches == available_ingredients \cap all_recipe_ingredients
        direct_required_matches == available_ingredients \cap required_ingredients
        missing_required == required_ingredients \ available_ingredients
        substitutable_ingredients ==
            BestSubstituteScores(nodes, missing_required, available_ingredients)
        total_required == Cardinality(required_ingredients)
        base_score ==
            IF total_required = 0 THEN One
            ELSE (Cardinality(direct_required_matches) * One) \div total_required
                 + (SumOver(substitutable_ingredients, DOMAIN substitutable_ingredients) * 8)
                       \div (total_required * 10)
        optional_matches == available_ingredients \cap optional_ingredients
        optional_bonus == (Cardinality(optional_matches) * One)
                              \div (Max(Cardinality(optional_ingredients), 1) * 10)
        completely_missing == missing_required \ DOMAIN substitutable_ingredients
        missing_penalty == (Cardinality(completely_missing) * 3 * One)
                               \div (Max(total_required, 1) * 10)
    IN  [score |-> Clamp01(base_score + optional_bonus - missing_penalty),
         analysis |-> [direct_matches |-> direct_matches,
                       missing_ingredients |-> missing_required,
                       substitutable_ingredients |-> DOMAIN substitutable_ingredients]]

\* calculate_recipe_match_score, for a recipe of recipe_nodes
calculate_recipe_match_score(nodes, recipe, available_ingredients) ==
    LET required_ingredients == RequiredIngredients(recipe)
        optional_ingredients == OptionalIngredients(recipe)
        all_recipe_ingredients == required_ingredients \cup optional_ingredients
        direct_matches == available_ingredients \cap all_recipe_ingredients
        direct_required_matches == available_ingredients \cap required_ingredients
        missing_required == required_ingredients \ available_ingredients
        substitutable_ingredients ==
            BestSubstituteScores(nodes, missing_required, available_ingredients)
        total_required == Cardinality(required_ingredients)
        base_score ==
            IF total_required = 0 THEN One
            ELSE (Cardinality(direct_required_matches) * One) \div total_required
                 + (SumOver(substitutable_ingredients, DOMAIN substitutable_ingredients) * 8)
                       \div (total_required * 10)
        optional_matches == available_ingredients \cap optional_ingredients
        optional_bonus == (Cardinality(optional_matches) * One)
                              \div (Max(Cardinality(optional_ingredients), 1) * 10)
        completely_missing == missing_required \ DOMAIN substitutable_ingredients
        missing_penalty == (Cardinality(completely_missing) * 3 * One)
                               \div (Max(total_required, 1) * 10)
    IN  [score |-> Clamp01(base_score + optional_bonus - missing_penalty),
         analysis |-> [direct_matches |-> direct_matches,
                       missing_ingredients |-> completely_missing,
                       substitutable_ingredients |-> DOMAIN substitutable_ingredients]]

\* the first loop of recommend_recipes_graph: the recipes scoring above 0.1,
\* in the order of recipe_nodes
RECURSIVE ScoreRecipes(_, _, _)
ScoreRecipes(nodes, rnodes, available_ingredients) ==
    IF rnodes = <<>> THEN <<>>
    ELSE LET match_result == calculate_recipe_match_score(nodes, rnodes[1],
                                                          available_ingredients)
         IN  (IF match_result.score > One \div 10
              THEN <<RecipeMatch(rnodes[1], match_result.score,
                                 match_result.analysis.direct_matches,
                                 match_result.analysis.missing_ingredients,
                                 match_result.analysis.substitutable_ingredients,
                                 Min((match_result.score * 12) \div 10, One),
                                 "graph_theory")>>
              ELSE <<>>)
             \o ScoreRecipes(nodes, Tail(rnodes), available_ingredients)

\* recommend_recipes_graph
recommend_recipes_graph(nodes, rnodes, available_ingredients, max_results) ==
    Take(SortByScoreDescending(ScoreRecipes(nodes, rnodes, available_ingredients)),
         max_results)

-----------------------------------------------------------------------------
(* RecipeRecommendationService (services/recipe_service.py)                *)

\* the thresholds of _select_algorithm
GreedyRecipeThreshold == 1000

GreedyIngredientThreshold == 20

BacktrackingRecipeThreshold == 100

BacktrackingIngredientThreshold == 10

\* max_results of _get_recipe_matches
DefaultMaxResults == 10

\* _select_algorithm with the greedy thresholds read as "at least"
select_algorithm_inclusive(algorithm_preference, num_recipes, num_available_ingredients) ==
    IF TruthyText(algorithm_preference) THEN algorithm_preference[1]
    ELSE IF \/ num_recipes >= GreedyRecipeThreshold
            \/ num_available_ingredients >= GreedyIngredientThreshold
    THEN "greedy"
    ELSE IF /\ num_recipes < BacktrackingRecipeThreshold
            /\ num_available_ingredients < BacktrackingIngredientThreshold
    THEN "backtracking"
    ELSE "graph"

\* _select_algorithm; num_recipes is len(self.recipes), num_available_ingredients
\* is len(request.available_ingredients)
select_algorithm(algorithm_preference, num_recipes, num_available_ingredients) ==
    IF TruthyText(algorithm_preference) THEN algorithm_preference[1]
    ELSE IF \/ num_recipes > GreedyRecipeThreshold
            \/ num_available_ingredients > GreedyIngredientThreshold
    THEN "greedy"
    ELSE IF /\ num_recipes < BacktrackingRecipeThreshold
            /\ num_available_ingredients < BacktrackingIngredientThreshold
    THEN "backtracking"
    ELSE "graph"

\* what a call ends with: a returned value, or an exception leaving it
Returned(value) == [raised |-> FALSE, value |-> value]

Raised == [raised |-> TRUE, value |-> <<>>]

\* the matcher call of one branch of the try block; raising is the set of
\* matchers that raise an exception when run on this request
RunMatcher(recs, ings, nodes, rnodes, req, matcher, raising) ==
    IF matcher \in raising THEN Raised
    ELSE IF matcher = "backtracking"
    THEN Returned(find_optimal_recipes(recs, ings, req, DefaultMaxResults))
    ELSE IF matcher = "graph"
    THEN Returned(recommend_recipes_graph(nodes, rnodes,
             normalize_ingredient_identifiers(ings, Range(req.available_ingredients)),
             DefaultMaxResults))
    ELSE Returned(find_recipes_greedy(recs, ings, req, DefaultMaxResults))

\* the try block of _get_recipe_matches: the matcher of the branch taken, the
\* else branch (an unknown algorithm) being the greedy one
TriedMatcher(algorithm) ==
    IF algorithm \in {"greedy", "backtracking", "graph"} THEN algorithm ELSE "greedy"

\* _get_recipe_matches with an except handler that returns no match
get_recipe_matches_without_fallback(recs, ings, nodes, rnodes, req, algorithm, raising) ==
    IF TriedMatcher(algorithm) \in raising
    THEN Returned(<<>>)
    ELSE RunMatcher(recs, ings, nodes, rnodes, req, TriedMatcher(algorithm), raising)

\* _get_recipe_matches: the outcome of the tried matcher when it returns, and
\* of the greedy matcher called by the except handler when it raises (a
\* matcher that raises leaves no state behind)
get_recipe_matches(recs, ings, nodes, rnodes, req, algorithm, raising) ==
    RunMatcher(recs, ings, nodes, rnodes, req,
               IF TriedMatcher(algorithm) \in raising THEN "greedy"
               ELSE TriedMatcher(algorithm),
               raising)

\* Counter(all_missing) of _analyze_ingredient_gaps: for each id some match
\* misses, the number of matches that miss it
MissingFrequency(matches) ==
    [ingredient_id \in UNION {matches[i].missing_ingredients : i \in 1..Len(matches)} |->
        Cardinality({i \in 1..Len(matches) :
                        ingredient_id \in matches[i].missing_ingredients})]

\* essential_missing of _analyze_ingredient_gaps (lines 151-168); the list is
\* in the iteration order of the Counter and is kept as the set of its entries
EssentialMissing(ings, matches) ==
    LET missing_frequency == MissingFrequency(matches)
    IN  {[id |-> ingredient_id,
          name |-> Lookup(ings, ingredient_id).name,
          frequency |-> missing_frequency[ingredient_id],
          impact_score |-> (missing_frequency[ingredient_id] * One) \div Len(matches)] :
            ingredient_id \in
                {k \in DOMAIN missing_frequency :
                    /\ k \in IdSet(ings)
                    /\ missing_frequency[k] * One > (Len(matches) * One) \div 2}}

\* the coverage of the matches whose recipe has a required ingredient
\* (coverage_scores of _analyze_ingredient_coverage), summed from match i on
RECURSIVE SumCoverage(_, _, _)
SumCoverage(available_ingredients, matches, i) ==
    IF i > Len(matches) THEN 0
    ELSE (IF RequiredIngredients(matches[i].recipe) = {} THEN 0
          ELSE (Cardinality(available_ingredients
                                \cap RequiredIngredients(matches[i].recipe)) * One)
                   \div Cardinality(RequiredIngredients(matches[i].recipe)))
         + SumCoverage(available_ingredients, matches, i + 1)

\* _analyze_ingredient_coverage; {} for no match
analyze_ingredient_coverage(available_ingredients, matches) ==
    IF matches = <<>> THEN <<>>
    ELSE LET scored == {i \in 1..Len(matches) :
                           RequiredIngredients(matches[i].recipe) # {}}
         IN  [total_suggested_recipes |-> Len(matches),
              fully_covered_recipes |->
                  Cardinality({i \in 1..Len(matches) :
                                  matches[i].missing_ingredients = {}}),
              partially_covered_recipes |->
                  Cardinality({i \in 1..Len(matches) :
                                  /\ matches[i].missing_ingredients # {}
                                  /\ Cardinality(matches[i].missing_ingredients) <= 3}),
              average_coverage_percentage |->
                  IF scored = {} THEN 0
                  ELSE (SumCoverage(available_ingredients, matches, 1)
                            \div Cardinality(scored)) * 100]

\* _analyze_ingredient_gaps: the tally, the essential list and the coverage
analyze_ingredient_gaps(ings, req, matches) ==
    [total_unique_missing |-> Cardinality(DOMAIN MissingFrequency(matches)),
     essential_missing_ingredients |-> EssentialMissing(ings, matches),
     coverage_analysis |->
         analyze_ingredient_coverage(
             normalize_ingredient_identifiers(ings, Range(req.available_ingredients)),
             matches)]

\* _get_substitution_recommendations: for each missing id of the store that
\* has a substitute, its best three; the list follows the iteration order of
\* the set substitution_candidates and is kept as the set of its entries
get_substitution_recommendations(ings, nodes, req, matches) ==
    LET available_ingredients ==
            normalize_ingredient_identifiers(ings, Range(req.available_ingredients))
        substitution_candidates ==
            UNION {matches[i].missing_ingredients : i \in 1..Len(matches)}
        substitutes(missing_ingredient_id) ==
            find_ingredient_substitutes(nodes, missing_ingredient_id,
                available_ingredients, AnOrderOf(available_ingredients))
    IN  {[missing_ingredient |-> missing_ingredient_id,
          substitutes |-> Take(substitutes(missing_ingredient_id), 3)] :
            missing_ingredient_id \in
                {c \in substitution_candidates :
                    substitutes(c) # <<>> /\ c \in IdSet(ings)}}

\* suggest_recipes refusing to answer on a store without recipes
BuildResponseRejectingEmptyStore(got, ings, nodes, req, total_recipes_analyzed, algorithm_used) ==
    IF got.raised \/ total_recipes_analyzed = 0 THEN Raised
    ELSE Returned([matches |-> got.value,
                   total_recipes_analyzed |-> total_recipes_analyzed,
                   algorithm_used |-> algorithm_used,
                   ingredient_gap_analysis |->
                       analyze_ingredient_gaps(ings, req, got.value),
                   substitution_recommendations |->
                       get_substitution_recommendations(ings, nodes, req, got.value)])

\* the end of suggest_recipes (lines 65-84): the RecipeSuggestionResponse built
\* from the matches, or the exception of _get_recipe_matches passing through
BuildResponse(got, ings, nodes, req, total_recipes_analyzed, algorithm_used) ==
    IF got.raised THEN Raised
    ELSE Returned([matches |-> got.value,
                   total_recipes_analyzed |-> total_recipes_analyzed,
                   algorithm_used |-> algorithm_used,
                   ingredient_gap_analysis |->
                       analyze_ingredient_gaps(ings, req, got.value),
                   substitution_recommendations |->
                       get_substitution_recommendations(ings, nodes, req, got.value)])

\* suggest_recipes: the RecipeSuggestionResponse, or the exception
suggest_recipes(recs, ings, nodes, rnodes, req, raising) ==
    LET algorithm == select_algorithm(req.algorithm_preference, Len(recs),
                                      Len(req.available_ingredients))
    IN  BuildResponse(get_recipe_matches(recs, ings, nodes, rnodes, req,
                                         algorithm, raising),
                      ings, nodes, req, Len(recs), algorithm)

\* get_ingredient_by_id: self.ingredients.get(ingredient_id)
get_ingredient_by_id(ings, ingredient_id) ==
    IF ingredient_id \in IdSet(ings) THEN Some(Lookup(ings, ingredient_id)) ELSE None

\* IngredientGraph.add_recipe: the recipe_ingredient edges it adds
RecipeEdges(nodes, recipe) ==
    {<<recipe.id, recipe.ingredients[i].ingredient_id>> :
        i \in {j \in 1..Len(recipe.ingredients) :
                  recipe.ingredients[j].ingredient_id \in IdSet(nodes)}}

-----------------------------------------------------------------------------
(* The requests the service is called with                                 *)

\* "a", "b", "c": ids; "x": the name of b and, but for case, an alias of a;
\* "o": no ingredient of the catalog, though recipe r2 requires it
NamePool == {<<97>>, <<98>>, <<99>>, <<120>>, <<111>>}

\* the longest available_ingredients list (bound)
MaxAvailable == 2

\* the largest max_missing_ingredients (bound)
MaxMissing == 2

AvailableLists ==
    {AnOrderOf(S) : S \in {T \in SUBSET NamePool : Cardinality(T) <= MaxAvailable}}

\* the request fields besides available_ingredients, max_missing_ingredients
\* and algorithm_preference: none set; a vegan Italian dinner within time
\* limits; c excluded, beginner level, a cuisine no recipe has, max_prep_time 0
RequestProfiles ==
    {[dietary_preferences |-> <<>>, meal_type |-> None, max_prep_time |-> None,
      max_cook_time |-> None, difficulty_level |-> None,
      cuisine_preference |-> None, exclude_ingredients |-> <<>>],
     [dietary_preferences |-> << <<118>> >>, meal_type |-> Some("dinner"),
      max_prep_time |-> Some(30), max_cook_time |-> Some(25),
      difficulty_level |-> None, cuisine_preference |-> Some(<<105>>),
      exclude_ingredients |-> <<>>],
     [dietary_preferences |-> <<>>, meal_type |-> None, max_prep_time |-> Some(0),
      max_cook_time |-> None, difficulty_level |-> Some("beginner"),
      cuisine_preference |-> Some(<<102>>), exclude_ingredients |-> << <<99>> >>]}

\* RecipeSuggestionRequest (models/recipe.py)
MakeRequest(available, max_missing, profile, preference) ==
    [available_ingredients |-> available,
     dietary_preferences |-> profile.dietary_preferences,
     meal_type |-> profile.meal_type,
     max_missing_ingredients |-> max_missing,
     max_prep_time |-> profile.max_prep_time,
     max_cook_time |-> profile.max_cook_time,
     difficulty_level |-> profile.difficulty_level,
     cuisine_preference |-> profile.cuisine_preference,
     exclude_ingredients |-> profile.exclude_ingredients,
     algorithm_preference |-> preference]

Matchers == {"greedy", "backtracking", "graph"}

\* algorithm_preference: unset, empty, the three strategies, an unknown one
Preferences == {None, Some(""), Some("greedy"), Some("backtracking"),
                Some("graph"), Some("fastest")}

\* the requests the matchers are examined on
MatchRequests ==
    {MakeRequest(available, max_missing, profile, None) :
        available \in AvailableLists, max_missing \in 0..MaxMissing,
        profile \in RequestProfiles}

\* the requests the orchestrator is examined on: every preference on two
\* ingredient lists, ["a", "b"] and ["x", "o"]
ProbeLists == {<< <<97>>, <<98>> >>, << <<120>>, <<111>> >>}

Requests ==
    {MakeRequest(available, MaxMissing, profile, preference) :
        available \in ProbeLists, preference \in Preferences,
        profile \in {p \in RequestProfiles : p.dietary_preferences = <<>> /\ p.meal_type = None
                                              /\ p.max_prep_time = None}}

-----------------------------------------------------------------------------
(* The service as a state machine.  Calls are served one at a time: a call *)
(* is taken when no response is pending, and Return hands the response to  *)
(* the caller.                                                             *)

NoCall == [op |-> "none"]

NoRequest == <<>>

NoResponse == <<>>

\* RecipeRecommendationService.__init__
Init ==
    /\ ingredients = <<>>
    /\ recipes = <<>>
    /\ ingredient_nodes = <<>>
    /\ recipe_nodes = <<>>
    /\ graph_edges = {}
    /\ request = NoRequest
    /\ response = NoResponse
    /\ search = NewBacktrackingMatcher
    /\ call = NoCall
    /\ result = <<>>

\* service.add_ingredient(ingredient) without the call of
\* ingredient_graph.add_ingredient
AddIngredientToStoreOnly(ingredient) ==
    /\ response = NoResponse
    /\ ingredients' = DictPut(ingredients, ingredient)
    /\ search' = NewBacktrackingMatcher
    /\ UNCHANGED <<recipes, ingredient_nodes, recipe_nodes, graph_edges, request,
                   response, call, result>>

\* service.add_ingredient(ingredient), with _reinitialize_matchers
AddIngredient(ingredient) ==
    /\ response = NoResponse
    /\ ingredients' = DictPut(ingredients, ingredient)
    /\ ingredient_nodes' = DictPut(ingredient_nodes, ingredient)
    /\ search' = NewBacktrackingMatcher
    /\ UNCHANGED <<recipes, recipe_nodes, graph_edges, request, response, call, result>>

\* service.add_recipe(recipe), with _reinitialize_matchers
AddRecipe(recipe) ==
    /\ response = NoResponse
    /\ recipes' = DictPut(recipes, recipe)
    /\ recipe_nodes' = DictPut(recipe_nodes, recipe)
    /\ graph_edges' = graph_edges \cup RecipeEdges(ingredient_nodes, recipe)
    /\ search' = NewBacktrackingMatcher
    /\ UNCHANGED <<ingredients, ingredient_nodes, request, response, call, result>>

\* service.suggest_recipes(req), the matchers in `raising` raising an exception;
\* find_optimal_recipes is run to completion inside the call
SuggestRecipes(req, raising) ==
    /\ response = NoResponse
    /\ request' = req
    /\ call' = [op |-> "suggest_recipes", raising |-> raising]
    /\ response' = suggest_recipes(recipes, ingredients, ingredient_nodes,
                                   recipe_nodes, req, raising)
    /\ UNCHANGED <<ingredients, recipes, ingredient_nodes, recipe_nodes,
                   graph_edges, search, result>>

\* the caller takes the response (or the exception)
Return ==
    /\ response # NoResponse
    /\ request' = NoRequest
    /\ call' = NoCall
    /\ response' = NoResponse
    /\ UNCHANGED <<ingredients, recipes, ingredient_nodes, recipe_nodes,
                   graph_edges, search, result>>

Next ==
    \/ \E ingredient \in IngredientCatalog : AddIngredient(ingredient)
    \/ \E recipe \in RecipeCatalog : AddRecipe(recipe)
    \/ \E req \in Requests, raising \in SUBSET Matchers : SuggestRecipes(req, raising)
    \/ Return

Spec == Init /\ [][Next]_vars


-----------------------------------------------------------------------------
(* The three matchers called directly on a loaded store.  The loader adds  *)
(* the ingredients first and the recipes after them (data/sample_data.py). *)

MaxResults == 2

\* the orders in which the elements of S can be added
Orders(S) ==
    {f \in [1..Cardinality(S) -> S] : \A i, j \in 1..Cardinality(S) : f[i] = f[j] => i = j}

RECURSIVE LoadAll(_, _, _)
LoadAll(d, objs, i) ==
    IF i > Len(objs) THEN d ELSE LoadAll(DictPut(d, objs[i]), objs, i + 1)

\* the stores the matchers are examined on: no ingredient, the catalog with a
\* before b and with b before a, a store without b; the three recipes in
\* every order, no recipe, and r0 with r1
IngredientOrders ==
    {<<>>, <<IngA, IngB, IngC>>, <<IngB, IngA, IngC>>, <<IngC, IngA>>}

IngredientLoads == {LoadAll(<<>>, objs, 1) : objs \in IngredientOrders}

MatchRecipeCatalog == {RecipeDef(1), RecipeDef(2), RecipeDef(3)}

\* "r0": a quick and popular recipe that needs a and the unknown "o" and two
\* pieces of equipment beyond the basic ones
QuickAdvancedRecipe ==
    [RecipeDef(2) EXCEPT
        !.id = <<114, 48>>,
        !.ingredients = <<Line(<<97>>, FALSE, 100), Line(<<111>>, FALSE, 1)>>,
        !.prep_time_minutes = 10,
        !.cook_time_minutes = 20]

RecipeLoads ==
    {LoadAll(<<>>, objs, 1) :
        objs \in Orders(MatchRecipeCatalog) \cup {<<>>, <<QuickAdvancedRecipe, RecipeDef(1)>>}}

InitMatch ==
    /\ ingredients \in IngredientLoads
    /\ recipes \in RecipeLoads
    /\ ingredient_nodes = ingredients
    /\ recipe_nodes = recipes
    /\ graph_edges = UNION {RecipeEdges(ingredients, recipes[i]) : i \in 1..Len(recipes)}
    /\ request = NoRequest
    /\ response = NoResponse
    /\ search = NewBacktrackingMatcher
    /\ call = NoCall
    /\ result = <<>>

\* greedy_matcher.find_recipes_greedy(req, max_results); the call keeps the
\* number of candidates it passed to _create_detailed_match
FindRecipesGreedy(req, max_results) ==
    /\ response = NoResponse
    /\ request' = req
    /\ call' = [op |-> "find_recipes_greedy", max_results |-> max_results,
                processed_count |->
                    ProcessedCount(
                        Cardinality(ScoredCandidates(recipes,
                            greedy_normalize_ingredient_identifiers(ingredients,
                                Range(req.available_ingredients)), req)),
                        0, 0, max_results)]
    /\ response' = Returned(find_recipes_greedy(recipes, ingredients, req, max_results))
    /\ UNCHANGED <<ingredients, recipes, ingredient_nodes, recipe_nodes,
                   graph_edges, search, result>>

\* backtracking_matcher.find_optimal_recipes(req, max_results), run to completion
FindOptimalRecipes(req, max_results) ==
    /\ response = NoResponse
    /\ request' = req
    /\ call' = [op |-> "find_optimal_recipes", max_results |-> max_results]
    /\ response' = Returned(find_optimal_recipes(recipes, ingredients, req, max_results))
    /\ UNCHANGED <<ingredients, recipes, ingredient_nodes, recipe_nodes,
                   graph_edges, search, result>>

\* ingredient_graph.recommend_recipes_graph(available, max_results) on the
\* identifiers the service resolved, as in _get_recipe_matches
RecommendRecipesGraph(req, max_results) ==
    /\ response = NoResponse
    /\ request' = req
    /\ call' = [op |-> "recommend_recipes_graph", max_results |-> max_results]
    /\ response' = Returned(recommend_recipes_graph(ingredient_nodes, recipe_nodes,
                       normalize_ingredient_identifiers(ingredients,
                                                        Range(req.available_ingredients)),
                       max_results))
    /\ UNCHANGED <<ingredients, recipes, ingredient_nodes, recipe_nodes,
                   graph_edges, search, result>>

NextMatch ==
    \/ \E req \in MatchRequests, max_results \in 1..MaxResults :
           FindRecipesGreedy(req, max_results)
    \/ \E req \in MatchRequests, max_results \in 1..MaxResults :
           FindOptimalRecipes(req, max_results)
    \/ \E req \in MatchRequests, max_results \in 1..MaxResults :
           RecommendRecipesGraph(req, max_results)
    \/ Return

SpecMatch == InitMatch /\ [][NextMatch]_vars

-----------------------------------------------------------------------------
(* find_optimal_recipes step by step: one step per entry into, and per     *)
(* return into, an invocation of _backtrack_search.                        *)

\* the size of a store whose search tree has more than max_explorations nodes
BigStoreSize == 13

BigRecipeStore == LoadAll(<<>>, [i \in 1..BigStoreSize |-> RecipeDef(3 + i)], 1)

FullIngredientStore == LoadAll(<<>>, <<IngA, IngB, IngC>>, 1)

\* a store of eighteen recipes, the i-th of which needs "a" where NeedsA[i]
\* and the unknown "o" elsewhere: with only the former viable and
\* max_results = 10 the search makes exactly max_explorations invocations
NeedsA ==
    <<TRUE, TRUE, FALSE, TRUE, FALSE, TRUE, TRUE, FALSE, TRUE,
      TRUE, TRUE, FALSE, TRUE, FALSE, TRUE, FALSE, TRUE, TRUE>>

ExactRecipeStore ==
    LoadAll(<<>>,
            [i \in 1..Len(NeedsA) |->
                [RecipeDef(3 + i) EXCEPT
                    !.ingredients =
                        <<Line(IF NeedsA[i] THEN <<97>> ELSE <<111>>, FALSE, 100)>>]],
            1)

BTRequests ==
    {MakeRequest(available, max_missing, profile, None) :
        available \in ProbeLists \cup {<<>>}, max_missing \in {0, MaxMissing},
        profile \in RequestProfiles}

\* the calls examined: every small recipe store and the big store with a
\* small, a larger and the default max_results, the former with every request
\* above; the store of exactly max_explorations invocations with the default
\* max_results
BTRuns ==
    {[recipes |-> recs, request |-> req, max_results |-> max_results] :
        recs \in RecipeLoads, req \in BTRequests,
        max_results \in (1..MaxResults) \cup {DefaultMaxResults}}
    \cup {[recipes |-> BigRecipeStore,
           request |-> MakeRequest(<< <<97>>, <<98>> >>, MaxMissing,
                                   CHOOSE p \in RequestProfiles :
                                       p.dietary_preferences = <<>> /\ p.max_prep_time = None,
                                   None),
           max_results |-> max_results] :
              max_results \in (1..MaxResults) \cup {DefaultMaxResults}}
    \cup {[recipes |-> ExactRecipeStore,
           request |-> MakeRequest(<< <<97>>, <<98>> >>, 0,
                                   CHOOSE p \in RequestProfiles :
                                       p.dietary_preferences = <<>> /\ p.max_prep_time = None,
                                   None),
           max_results |-> DefaultMaxResults]}

InitBTOf(runs) ==
    \E run \in runs :
        /\ ingredients = FullIngredientStore
        /\ recipes = run.recipes
        /\ ingredient_nodes = ingredients
        /\ recipe_nodes = recipes
        /\ graph_edges = UNION {RecipeEdges(ingredients, recipes[i]) : i \in 1..Len(recipes)}
        /\ request = run.request
        /\ response = NoResponse
        /\ search = NewBacktrackingMatcher
        /\ call = [op |-> "find_optimal_recipes", max_results |-> run.max_results]
        /\ result = <<>>

InitBT == InitBTOf(BTRuns)

\* find_optimal_recipes up to its call of _backtrack_search, or to the early
\* "return []"
BTStart ==
    /\ search.phase = "idle"
    /\ search' = StartSearch(recipes, ingredients, request, call.max_results)
    /\ response' = IF search'.phase = "returned"
                   THEN Returned(SearchResult(search'))
                   ELSE NoResponse
    /\ UNCHANGED <<ingredients, recipes, ingredient_nodes, recipe_nodes,
                   graph_edges, request, call, result>>

\* an invocation of _backtrack_search runs from its entry
BTEnter ==
    /\ search.phase = "searching"
    /\ search.stack # <<>>
    /\ Top(search.stack).pc = "entry"
    /\ search' = EnterInvocation(recipes, ingredients, request, search)
    /\ UNCHANGED <<ingredients, recipes, ingredient_nodes, recipe_nodes,
                   graph_edges, request, response, call, result>>

\* a recursive call returns into its caller
BTResume ==
    /\ search.phase = "searching"
    /\ search.stack # <<>>
    /\ Top(search.stack).pc # "entry"
    /\ search' = ResumeInvocation(search)
    /\ UNCHANGED <<ingredients, recipes, ingredient_nodes, recipe_nodes,
                   graph_edges, request, response, call, result>>

\* the first invocation has returned: sort and return
BTFinish ==
    /\ search.phase = "searching"
    /\ search.stack = <<>>
    /\ search' = FinishSearch(search)
    /\ response' = Returned(SearchResult(search'))
    /\ UNCHANGED <<ingredients, recipes, ingredient_nodes, recipe_nodes,
                   graph_edges, request, call, result>>

\* backtracking_matcher.get_algorithm_insights() after the call, as
\* _get_algorithm_insights of the service asks for it
BTInsights ==
    /\ search.phase = "returned"
    /\ result = None
    /\ result' = Some(get_algorithm_insights(search))
    /\ UNCHANGED <<ingredients, recipes, ingredient_nodes, recipe_nodes,
                   graph_edges, request, response, search, call>>

NextBT == BTStart \/ BTEnter \/ BTResume \/ BTFinish \/ BTInsights

SpecBT == InitBT /\ [][NextBT]_vars

\* the calls on the small recipe stores, running on: the interpreter executes
\* the next statement of find_optimal_recipes whenever there is one
SpecBTFair ==
    /\ InitBTOf({run \in BTRuns : Len(run.recipes) <= Cardinality(MatchRecipeCatalog)})
    /\ [][NextBT]_vars
    /\ WF_vars(NextBT)

-----------------------------------------------------------------------------
(* _select_algorithm on store sizes and request lengths around its         *)
(* thresholds, which no store of the other specifications reaches          *)

\* 0 and the values next to each threshold
Around(thresholds) == {0} \cup UNION {{t - 1, t, t + 1} : t \in thresholds}

InitSelect ==
    /\ ingredients = <<>>
    /\ recipes = <<>>
    /\ ingredient_nodes = <<>>
    /\ recipe_nodes = <<>>
    /\ graph_edges = {}
    /\ request = NoRequest
    /\ response = NoResponse
    /\ search = NewBacktrackingMatcher
    /\ call \in [op : {"select_algorithm"},
                 algorithm_preference : Preferences,
                 num_recipes : Around({BacktrackingRecipeThreshold, GreedyRecipeThreshold}),
                 num_available_ingredients :
                     Around({BacktrackingIngredientThreshold, GreedyIngredientThreshold})]
    /\ result = None

\* service._select_algorithm(request) on a store of call.num_recipes recipes
SelectAlgorithm ==
    /\ call.op = "select_algorithm"
    /\ result = None
    /\ result' = Some(select_algorithm(call.algorithm_preference, call.num_recipes,
                                       call.num_available_ingredients))
    /\ UNCHANGED <<ingredients, recipes, ingredient_nodes, recipe_nodes,
                   graph_edges, request, response, search, call>>

NextSelect == SelectAlgorithm

SpecSelect == InitSelect /\ [][NextSelect]_vars

-----------------------------------------------------------------------------
(* What a finished call shows                                              *)

\* the list of RecipeMatch a finished call returned: response.matches of
\* suggest_recipes, the returned list of a matcher
Matches ==
    IF response = NoResponse THEN <<>>
    ELSE IF response.raised THEN <<>>
    ELSE IF call.op = "suggest_recipes" THEN response.value.matches
    ELSE response.value

\* the available set the request resolves to in the store
ResolvedAvailable ==
    normalize_ingredient_identifiers(ingredients, Range(request.available_ingredients))

\* the position of a key in a dict's insertion order
Position(d, key) == CHOOSE k \in 1..Len(d) : d[k].id = key

\* name is no id, no name and no alias of the store
MatchesNoIngredient(name) ==
    \A i \in 1..Len(ingredients) :
        /\ ingredients[i].id # name
        /\ Lower(ingredients[i].name) # Lower(name)
        /\ \A j \in 1..Len(ingredients[i].aliases) :
               Lower(ingredients[i].aliases[j]) # Lower(name)

-----------------------------------------------------------------------------
(* Properties of the matchers (SpecMatch)                                  *)

\* C1: every match returned by any of the three strategies has a match_score
\* and a confidence_score between 0 and 1 inclusive.
C1_ScoresWithinUnitInterval ==
    \A i \in 1..Len(Matches) :
        /\ 0 <= Matches[i].match_score /\ Matches[i].match_score <= One
        /\ 0 <= Matches[i].confidence_score /\ Matches[i].confidence_score <= One

\* a greedy match whose confidence sits on the floor 0 with a positive score
C1_Witness ==
    /\ call.op = "find_recipes_greedy"
    /\ \E i \in 1..Len(Matches) :
           Matches[i].confidence_score = 0 /\ Matches[i].match_score > 0

C4_GraphRankingStable ==
    call.op = "recommend_recipes_graph" =>
        \A i, j \in 1..Len(Matches) :
            i < j =>
                \/ Matches[i].match_score > Matches[j].match_score
                \/ /\ Matches[i].match_score = Matches[j].match_score
                   /\ Position(recipe_nodes, Matches[i].recipe.id)
                          < Position(recipe_nodes, Matches[j].recipe.id)

\* two recipes tie, and the one added first has the greater id
C4_Witness ==
    /\ call.op = "recommend_recipes_graph"
    /\ \E i, j \in 1..Len(Matches) :
           /\ i < j
           /\ Matches[i].match_score = Matches[j].match_score
           /\ StrLess(Matches[j].recipe.id, Matches[i].recipe.id)

\* C5 as the specification states it: for each of the three strategies, every
\* returned match's missing_ingredients is exactly the set of required
\* ingredient ids of its recipe that are not in the resolved available set.
C5_MissingIsRequiredMinusAvailable ==
    \A i \in 1..Len(Matches) :
        Matches[i].missing_ingredients
            = RequiredIngredients(Matches[i].recipe) \ ResolvedAvailable

\* C5, amended: greedy and backtracking report exactly the required ids that
\* are not in the resolved available set; the graph strategy reports those of
\* them for which find_ingredient_substitutes finds no substitute.
C5_MissingIngredientsPerStrategy ==
    \A i \in 1..Len(Matches) :
        LET missing_required ==
                RequiredIngredients(Matches[i].recipe) \ ResolvedAvailable
        IN  IF call.op = "recommend_recipes_graph"
            THEN Matches[i].missing_ingredients
                     = {id \in missing_required :
                           find_ingredient_substitutes(ingredient_nodes, id,
                               ResolvedAvailable, AnOrderOf(ResolvedAvailable)) = <<>>}
            ELSE Matches[i].missing_ingredients = missing_required

\* a graph match that leaves out a missing required id because it has a
\* substitute, while still reporting another one
C5_Witness ==
    /\ call.op = "recommend_recipes_graph"
    /\ \E i \in 1..Len(Matches) :
           /\ Matches[i].missing_ingredients # {}
           /\ Matches[i].missing_ingredients
                  # RequiredIngredients(Matches[i].recipe) \ ResolvedAvailable

\* C10: an entry of available_ingredients that is no id, name or alias of the
\* store is dropped without an error: the call returns, and no match lists the
\* entry, or anything but ids of the store, in its available_ingredients.
C10_UnresolvableEntriesDropped ==
    call.op # "none" =>
        /\ ~response.raised
        /\ \A i \in 1..Len(Matches) :
               /\ Matches[i].available_ingredients \subseteq IdSet(ingredients)
               /\ \A k \in 1..Len(request.available_ingredients) :
                      MatchesNoIngredient(request.available_ingredients[k])
                          => request.available_ingredients[k]
                                 \notin Matches[i].available_ingredients

\* the request lists an entry the store cannot resolve, and a recipe that uses
\* that very id is returned
C10_Witness ==
    /\ call.op # "none"
    /\ \E i \in 1..Len(Matches), k \in 1..Len(request.available_ingredients) :
           /\ MatchesNoIngredient(request.available_ingredients[k])
           /\ request.available_ingredients[k] \in RecipeIngredientIds(Matches[i].recipe)
           /\ Matches[i].available_ingredients # {}

-----------------------------------------------------------------------------
(* Properties of the orchestrator (Spec)                                   *)

\* the strategy _select_algorithm names for the pending request
SelectedAlgorithm ==
    select_algorithm(request.algorithm_preference, Len(recipes),
                     Len(request.available_ingredients))

C8_SuggestAlwaysResponds ==
    call.op = "suggest_recipes" => ~response.raised

\* the first ingredient in store order of which name is the name or an alias
FirstHit(name) ==
    LET hits == {i \in 1..Len(ingredients) :
                    \/ Lower(ingredients[i].name) = Lower(name)
                    \/ \E j \in 1..Len(ingredients[i].aliases) :
                           Lower(ingredients[i].aliases[j]) = Lower(name)}
    IN  IF hits = {} THEN {}
        ELSE {ingredients[CHOOSE i \in hits : \A k \in hits : i <= k].id}

\* C9 as the specification states it: an id match first, else a
\* case-insensitive name match, and an alias match only if no ingredient name
\* matches; so a string that is an alias of A and the name of B resolves to B
\* whatever the order of A and B in the store.
C9_NameBeatsAlias ==
    \A name \in NamePool :
        LET by_name == {ingredients[i].id :
                           i \in {k \in 1..Len(ingredients) :
                                     Lower(ingredients[k].name) = Lower(name)}}
            resolved == normalize_ingredient_identifiers(ingredients, {name})
        IN  (name \notin IdSet(ingredients) /\ by_name # {})
                => (resolved # {} /\ resolved \subseteq by_name)

\* C9, amended: a string that is an ingredient id resolves to that id;
\* otherwise it resolves to the first ingredient in store order whose name or
\* one of whose aliases equals it case-insensitively, name and alias matches
\* having the same priority; the service and both matchers resolve alike.
C9_FirstNameOrAliasInStoreOrder ==
    \A name \in NamePool :
        LET expected == IF name \in IdSet(ingredients) THEN {name} ELSE FirstHit(name)
        IN  /\ normalize_ingredient_identifiers(ingredients, {name}) = expected
            /\ greedy_normalize_ingredient_identifiers(ingredients, {name}) = expected
            /\ backtracking_normalize_ingredient_identifiers(ingredients, {name}) = expected

\* a is stored before b, the request lists "x" (alias of a, name of b) and a
\* returned match counts a, not b, as available
C9_Witness ==
    /\ call.op = "suggest_recipes"
    /\ <<97>> \in IdSet(ingredients) /\ <<98>> \in IdSet(ingredients)
    /\ Position(ingredients, <<97>>) < Position(ingredients, <<98>>)
    /\ request.available_ingredients = << <<120>>, <<111>> >>
    /\ \E i \in 1..Len(Matches) : Matches[i].available_ingredients = {<<97>>}

-----------------------------------------------------------------------------
(* Properties of the backtracking search (SpecBT)                          *)

\* C2: during one find_optimal_recipes call at most max_explorations
\* invocations of _backtrack_search get past the exploration-limit check, and
\* once the limit is exceeded every further invocation returns without
\* evaluating a solution or branching.
C2_ExplorationBounded ==
    /\ [](search.nodes_visited <= max_explorations)
    /\ [][(/\ search.phase = "searching"
           /\ search.stack # <<>>
           /\ Top(search.stack).pc = "entry"
           /\ search.exploration_count >= max_explorations)
            => /\ search'.stack = Pop(search.stack)
               /\ search'.best_matches = search.best_matches
               /\ search'.current_solution = search.current_solution
               /\ search'.nodes_visited = search.nodes_visited]_vars

\* the limit has been exceeded after max_explorations invocations got past it,
\* with invocations still to return
C2_Witness ==
    /\ search.exploration_count > max_explorations + 1
    /\ search.nodes_visited = max_explorations
    /\ search.stack # <<>>

-----------------------------------------------------------------------------
(* Properties of the strategy selection (SpecSelect)                       *)

\* C6: _select_algorithm returns a given algorithm_preference as is;
\* otherwise greedy if the store has more than 1000 recipes or the request
\* lists more than 20 available ingredients; otherwise backtracking if the
\* store has fewer than 100 recipes and the request lists fewer than 10
\* ingredients; otherwise graph; without a preference the choice is one of the
\* three strategies.
C6_SelectionTable ==
    (call.op = "select_algorithm" /\ result # None) =>
        LET preference == call.algorithm_preference
            n == call.num_recipes
            k == call.num_available_ingredients
        IN  IF preference # None /\ preference # Some("")
            THEN result = preference
            ELSE /\ result[1] \in Matchers
                 /\ result[1] = "greedy" <=> (n > 1000 \/ k > 20)
                 /\ result[1] = "backtracking"
                        <=> (~(n > 1000 \/ k > 20) /\ n < 100 /\ k < 10)
                 /\ result[1] = "graph"
                        <=> (~(n > 1000 \/ k > 20) /\ ~(n < 100 /\ k < 10))

\* no preference, exactly 1000 recipes and exactly 20 ingredients: graph
C6_Witness ==
    /\ call.op = "select_algorithm"
    /\ call.algorithm_preference = None
    /\ call.num_recipes = 1000
    /\ call.num_available_ingredients = 20
    /\ result = Some("graph")

-----------------------------------------------------------------------------
(* Properties of the response (Spec)                                       *)

\* C11: on a store with no recipes, suggest_recipes with algorithm_preference
\* "backtracking" raises no error and returns a response with zero matches and
\* total_recipes_analyzed = 0, whatever the available_ingredients; the gap
\* analysis and the substitution recommendations are empty.
C11_EmptyStoreBacktracking ==
    (/\ call.op = "suggest_recipes"
     /\ call.raising = {}
     /\ recipes = <<>>
     /\ request.algorithm_preference = Some("backtracking"))
        => /\ ~response.raised
           /\ response.value.matches = <<>>
           /\ response.value.total_recipes_analyzed = 0
           /\ response.value.ingredient_gap_analysis.total_unique_missing = 0
           /\ response.value.ingredient_gap_analysis.essential_missing_ingredients = {}
           /\ response.value.ingredient_gap_analysis.coverage_analysis = <<>>
           /\ response.value.substitution_recommendations = {}

\* a backtracking request listing a name and an unknown entry is answered on a
\* store that has ingredients but no recipe
C11_Witness ==
    /\ call.op = "suggest_recipes"
    /\ call.raising = {}
    /\ recipes = <<>>
    /\ ingredients # <<>>
    /\ request.algorithm_preference = Some("backtracking")
    /\ request.available_ingredients = << <<120>>, <<111>> >>
    /\ ~response.raised
    /\ response.value.matches = <<>>

-----------------------------------------------------------------------------
(* Properties of the request constraints (SpecMatch)                       *)

\* C12: whichever strategy serves the request, no returned match is for a
\* recipe with an ingredient line whose ingredient id is in
\* request.exclude_ingredients.
C12_ExcludedIngredientsNeverMatched ==
    \A i \in 1..Len(Matches) :
        RecipeIngredientIds(Matches[i].recipe) \cap Range(request.exclude_ingredients) = {}

\* C13: whichever strategy serves the request, no returned match is for a
\* recipe with more than request.max_missing_ingredients required ingredients
\* absent from the resolved available set.
C13_MissingCeilingRespected ==
    \A i \in 1..Len(Matches) :
        Cardinality(RequiredIngredients(Matches[i].recipe) \ ResolvedAvailable)
            <= request.max_missing_ingredients

-----------------------------------------------------------------------------
(* Properties of the store and the graph (Spec)                            *)

\* C14: after any sequence of add_ingredient and add_recipe calls the graph
\* has a recipe-ingredient edge for exactly the (recipe, ingredient line)
\* pairs of the store's recipes whose ingredient id is in the store, whatever
\* the order of the calls.
C14_GraphIsRederivedFromStore ==
    graph_edges = UNION {RecipeEdges(ingredients, recipes[i]) : i \in 1..Len(recipes)}

\* C15: after add_ingredient(i), get_ingredient_by_id(i.id) returns an object
\* equal to i, and it keeps returning it across every later add_recipe call
\* and every add_ingredient call for another id.
C15_AddedIngredientIsKept ==
    [][/\ \A ingredient \in IngredientCatalog :
              AddIngredient(ingredient)
                  => get_ingredient_by_id(ingredients', ingredient.id) = Some(ingredient)
       /\ \A ingredient \in IngredientCatalog :
              (/\ get_ingredient_by_id(ingredients, ingredient.id) = Some(ingredient)
               /\ ~(\E other \in IngredientCatalog :
                        other.id = ingredient.id /\ AddIngredient(other)))
                  => get_ingredient_by_id(ingredients', ingredient.id)
                         = Some(ingredient)]_vars

\* a was added first, b and two recipes were added to the store later, and
\* the query for a still returns a
C15_Witness ==
    /\ Len(ingredients) = 2
    /\ ingredients[1] = IngA
    /\ Len(recipes) = 2
    /\ get_ingredient_by_id(ingredients, IngA.id) = Some(IngA)

-----------------------------------------------------------------------------
(* The ingredient graph queried directly: calculate_flavor_similarity and  *)
(* find_ingredient_substitutes on graphs of up to six ingredients, one     *)
(* query per behavior.                                                     *)

\* "d": a vegetable whose flavor is that of "a" at twice the strength; it
\* declares a, b and c as substitutes
IngD ==
    [id |-> <<100>>, name |-> <<68>>, category |-> "vegetable",
     aliases |-> <<>>, flavor_profile |-> <<6, 8, 0, 0, 0, 0>>,
     common_substitutes |-> << <<97>>, <<98>>, <<99>> >>, dietary_tags |-> <<>>,
     cost_level |-> None]

\* "e": a vegetable without any flavor (every axis 0), with a at its
\* strongest on one axis as declared substitute
IngE ==
    [id |-> <<101>>, name |-> <<69>>, category |-> "vegetable",
     aliases |-> <<>>, flavor_profile |-> <<0, 0, 0, 0, 0, 0>>,
     common_substitutes |-> << <<97>> >>, dietary_tags |-> <<>>,
     cost_level |-> None]

\* "f": a spice at the upper end of the range on four axes
IngF ==
    [id |-> <<102>>, name |-> <<70>>, category |-> "spice",
     aliases |-> <<>>, flavor_profile |-> <<10, 10, 10, 10, 0, 0>>,
     common_substitutes |-> <<>>, dietary_tags |-> << <<118>> >>,
     cost_level |-> None]

\* the graphs examined: none, a to c, and a to f in this order and in the
\* opposite one
GraphLoads ==
    {<<>>,
     LoadAll(<<>>, <<IngA, IngB, IngC>>, 1),
     LoadAll(<<>>, <<IngA, IngB, IngC, IngD, IngE, IngF>>, 1),
     LoadAll(<<>>, <<IngF, IngE, IngD, IngC, IngB, IngA>>, 1)}

\* the ids the graph is asked about: the six ingredients and the unknown "o"
GraphIds == {<<97>>, <<98>>, <<99>>, <<100>>, <<101>>, <<102>>, <<111>>}

\* the ids the available sets are made of
ScanIds == {<<97>>, <<98>>, <<99>>, <<100>>, <<111>>}

\* the largest available set passed to find_ingredient_substitutes (bound)
MaxScan == 4

InitGraph ==
    /\ ingredient_nodes \in GraphLoads
    /\ ingredients = ingredient_nodes
    /\ recipes = <<>>
    /\ recipe_nodes = <<>>
    /\ graph_edges = {}
    /\ request = NoRequest
    /\ response = NoResponse
    /\ search = NewBacktrackingMatcher
    /\ call = NoCall
    /\ result = None

\* ingredient_graph.calculate_flavor_similarity(ingredient1_id, ingredient2_id)
CalculateFlavorSimilarity(ingredient1_id, ingredient2_id) ==
    /\ call = NoCall
    /\ call' = [op |-> "calculate_flavor_similarity",
                ingredient1_id |-> ingredient1_id, ingredient2_id |-> ingredient2_id]
    /\ result' = Some(calculate_flavor_similarity(ingredient_nodes, ingredient1_id,
                                                  ingredient2_id))
    /\ UNCHANGED <<ingredients, recipes, ingredient_nodes, recipe_nodes,
                   graph_edges, request, response, search>>

\* ingredient_graph.find_ingredient_substitutes(ingredient_id, available), the
\* set available being iterated in the order scan
FindIngredientSubstitutes(ingredient_id, scan) ==
    /\ call = NoCall
    /\ call' = [op |-> "find_ingredient_substitutes",
                ingredient_id |-> ingredient_id,
                available_ingredients |-> Range(scan), scan |-> scan]
    /\ result' = Some(find_ingredient_substitutes(ingredient_nodes, ingredient_id,
                                                  Range(scan), scan))
    /\ UNCHANGED <<ingredients, recipes, ingredient_nodes, recipe_nodes,
                   graph_edges, request, response, search>>

NextGraph ==
    \/ \E ingredient1_id \in GraphIds, ingredient2_id \in GraphIds :
           CalculateFlavorSimilarity(ingredient1_id, ingredient2_id)
    \/ \E ingredient_id \in GraphIds :
           \E available \in {S \in SUBSET ScanIds : Cardinality(S) <= MaxScan} :
               \E scan \in Orders(available) :
                   FindIngredientSubstitutes(ingredient_id, scan)

SpecGraph == InitGraph /\ [][NextGraph]_vars

-----------------------------------------------------------------------------
(* Properties of the ingredient graph (SpecGraph)                          *)

\* C16: for every ingredient a of the graph, whatever its flavor profile
\* within [0, 10] on each axis, the all-zero profile included,
\* calculate_flavor_similarity(a, a) equals 1.0.
C16_SelfSimilarityIsOne ==
    (/\ call.op = "calculate_flavor_similarity"
     /\ call.ingredient1_id = call.ingredient2_id
     /\ call.ingredient1_id \in IdSet(ingredient_nodes))
        => result = Some(One)

\* C17: for every pair of ingredient ids a and b, known or unknown to the
\* graph, calculate_flavor_similarity(a, b) equals
\* calculate_flavor_similarity(b, a).
C17_FlavorSimilaritySymmetric ==
    call.op = "calculate_flavor_similarity" =>
        result = Some(calculate_flavor_similarity(ingredient_nodes, call.ingredient2_id,
                                                  call.ingredient1_id))

\* two different ingredients of the graph whose flavor vectors differ in
\* length, with a positive similarity below 1
C17_Witness ==
    /\ call.op = "calculate_flavor_similarity"
    /\ call.ingredient1_id \in IdSet(ingredient_nodes)
    /\ call.ingredient2_id \in IdSet(ingredient_nodes)
    /\ LET p == Lookup(ingredient_nodes, call.ingredient1_id).flavor_profile
           q == Lookup(ingredient_nodes, call.ingredient2_id).flavor_profile
       IN  Dot(p, p) # Dot(q, q)
    /\ result[1] > 0 /\ result[1] < One

\* C18: find_ingredient_substitutes returns at most 5 (substitute id, score)
\* pairs in non-increasing order of score, for every target and every
\* available set, and the empty list when the target id is unknown.
C18_AtMostFiveDescending ==
    call.op = "find_ingredient_substitutes" =>
        /\ Len(result[1]) <= 5
        /\ \A i \in 1..(Len(result[1]) - 1) : result[1][i][2] >= result[1][i + 1][2]
        /\ call.ingredient_id \notin IdSet(ingredient_nodes) => result[1] = <<>>

\* more than five candidates were collected, with different scores, and five
\* are returned
C18_Witness ==
    /\ call.op = "find_ingredient_substitutes"
    /\ Len(find_ingredient_substitutes_untruncated(ingredient_nodes, call.ingredient_id,
                                                   call.available_ingredients,
                                                   call.scan)) > 5
    /\ Len(result[1]) = 5
    /\ result[1][1][2] > result[1][5][2]

-----------------------------------------------------------------------------
(* Properties of the algorithm insights (SpecBT)                           *)

\* C19: the insights of a backtracking call report search_completeness
\* "limited" if and only if the search was cut off by the exploration cap,
\* that is at least one _backtrack_search invocation was refused at the limit
\* check, and "exhaustive" otherwise.
C19_LimitedIffCutOff ==
    result # None =>
        IF search.exploration_count > search.nodes_visited
        THEN result[1].search_completeness = "limited"
        ELSE result[1].search_completeness = "exhaustive"

-----------------------------------------------------------------------------
(* Properties of the ingredient gap analysis (Spec)                        *)

\* C20: an ingredient id is listed in essential_missing_ingredients if and
\* only if it occurs in the missing_ingredients of more than half of the
\* returned matches.
C20_EssentialIffMoreThanHalf ==
    (call.op = "suggest_recipes" /\ ~response.raised) =>
        LET essential ==
                {e.id : e \in response.value.ingredient_gap_analysis
                                  .essential_missing_ingredients}
            missing_in(ingredient_id) ==
                Cardinality({i \in 1..Len(Matches) :
                                ingredient_id \in Matches[i].missing_ingredients})
        IN  \A ingredient_id \in
                    IdSet(ingredients)
                        \cup UNION {Matches[i].missing_ingredients : i \in 1..Len(Matches)} :
                ingredient_id \in essential
                    <=> 2 * missing_in(ingredient_id) > Len(Matches)

\* C21: a find_ingredient_substitutes result never contains the target
\* ingredient itself and never lists the same substitute id twice, whatever
\* the available set (the target or a declared substitute may be in it)
C21_NoTargetNoDuplicate ==
    (call # NoCall /\ call.op = "find_ingredient_substitutes") =>
        LET substitutes == result[1]
        IN  /\ \A i \in 1..Len(substitutes) : substitutes[i][1] # call.ingredient_id
            /\ \A i, j \in 1..Len(substitutes) :
                   substitutes[i][1] = substitutes[j][1] => i = j

-----------------------------------------------------------------------------
(* Properties of the matchers' result lists (SpecMatch, SpecBT)            *)

\* C22: in find_recipes_greedy the top 2*max_results candidates by initial
\* score, or all candidates if there are fewer, are passed to
\* _create_detailed_match before the result is cut to max_results
C22_TopTwiceMaxResultsRefined ==
    call.op = "find_recipes_greedy" =>
        LET candidates ==
                ScoredCandidates(recipes,
                    greedy_normalize_ingredient_identifiers(ingredients,
                        Range(request.available_ingredients)), request)
        IN  call.processed_count = Min(2 * call.max_results, Cardinality(candidates))

\* C23: once best_matches holds at least 2*max_results matches and the lowest
\* of their scores exceeds 0.8, no step of the running find_optimal_recipes
\* call adds a match to best_matches
C23_NoMatchAfterEarlyExit ==
    [][(/\ search.phase = "searching"
        /\ Len(search.best_matches) >= 2 * search.max_results
        /\ \A j \in 1..Len(search.best_matches) :
               search.best_matches[j].match_score > (8 * One) \div 10)
       => Range(search'.best_matches) = Range(search.best_matches)]_vars

\* the condition holds while invocations of _backtrack_search are still
\* active, one of them about to run with candidates left to branch on
C23_Witness ==
    /\ search.phase = "searching"
    /\ Len(search.best_matches) >= 2 * search.max_results
    /\ \A j \in 1..Len(search.best_matches) :
           search.best_matches[j].match_score > (8 * One) \div 10
    /\ search.stack # <<>>
    /\ Top(search.stack).pc = "entry"
    /\ Top(search.stack).current_index < Len(search.candidate_recipes)
    /\ Len(search.candidate_recipes) > 2 * search.max_results

\* C24: find_optimal_recipes terminates; while it searches, the k-th active
\* invocation of _backtrack_search has current_index k - 1, there are never
\* more active invocations than filtered candidates plus one, and
\* current_solution holds exactly the recipes appended by the invocations
\* that are inside their include branch, so that it is back at its value at
\* entry whenever an invocation has returned
C24_SearchTerminates ==
    /\ [](search.phase = "searching" =>
            LET included == SelectSeq(search.stack, LAMBDA frame : frame.pc = "include")
            IN  /\ Len(search.stack) <= Len(search.candidate_recipes) + 1
                /\ \A k \in 1..Len(search.stack) : search.stack[k].current_index = k - 1
                /\ search.current_solution =
                       [k \in 1..Len(included) |->
                           search.candidate_recipes[included[k].current_index + 1]])
    /\ <>(search.phase = "returned")

\* the recursion is at its deepest on at least three candidates, one of them
\* in current_solution and one given up again by an invocation that resumed
C24_Witness ==
    /\ search.phase = "searching"
    /\ Len(search.candidate_recipes) >= 3
    /\ Len(search.stack) = Len(search.candidate_recipes) + 1
    /\ search.current_solution # <<>>
    /\ \E k \in 1..Len(search.stack) : search.stack[k].pc = "skip"

\* C25: the list find_recipes_greedy returns is in non-increasing order of the
\* matches' refined match_score
C25_GreedyRankedByRefinedScore ==
    (call.op = "find_recipes_greedy" /\ response # NoResponse) =>
        \A i \in 1..(Len(response.value) - 1) :
            response.value[i].match_score >= response.value[i + 1].match_score

\* C26: when a find_optimal_recipes call has returned without the
\* exploration cap being exceeded and without an early return, best_matches
\* holds exactly the filtered candidates that are viable and score above 0.1,
\* and the returned list is the max_results highest-scoring of them
C26_BacktrackingComplete ==
    (/\ search.phase = "returned"
     /\ search.exploration_count <= max_explorations
     /\ search.early_returns = 0) =>
        LET score(recipe_id) ==
                create_recipe_match(ingredients, Lookup(recipes, recipe_id),
                                    search.available_ingredients, request).match_score
            complete == {recipe_id \in Range(Ids(filter_recipes_by_constraints(recipes, request))) :
                            /\ is_recipe_viable(recipes, recipe_id,
                                                search.available_ingredients, request)
                            /\ score(recipe_id) > One \div 10}
            returned == {response.value[i].recipe.id : i \in 1..Len(response.value)}
        IN  /\ {search.best_matches[i].recipe.id : i \in 1..Len(search.best_matches)} = complete
            /\ Len(response.value) = Min(search.max_results, Cardinality(complete))
            /\ returned \subseteq complete
            /\ \A i \in 1..Len(response.value) :
                   response.value[i].match_score = score(response.value[i].recipe.id)
            /\ \A kept \in returned, left \in complete \ returned : score(kept) >= score(left)

\* a complete search whose result is cut: more viable candidates above 0.1
\* than max_results, and a filtered candidate that is not viable
C26_Witness ==
    /\ search.phase = "returned"
    /\ search.exploration_count <= max_explorations
    /\ search.early_returns = 0
    /\ Len(search.best_matches) > search.max_results
    /\ Len(response.value) = search.max_results
    /\ \E i \in 1..Len(search.candidate_recipes) :
           ~is_recipe_viable(recipes, search.candidate_recipes[i],
                             search.available_ingredients, request)

\* C27: the insights reported after a find_optimal_recipes call never show
\* more explorations than the limit:
\* explorations_performed <= max_explorations_limit
C27_ExplorationsWithinLimit ==
    (call.op = "find_optimal_recipes" /\ result # None) =>
        result[1].explorations_performed <= result[1].max_explorations_limit

-----------------------------------------------------------------------------
(* Properties of the service's responses and catalog (Spec, SpecMatch)     *)

\* C28: every match in a suggest_recipes response has a match_score above
\* the minimum match threshold 0.1, whichever strategy produced it
C28_ReturnedScoresAboveThreshold ==
    (call.op = "suggest_recipes" /\ ~response.raised) =>
        \A i \in 1..Len(Matches) : Matches[i].match_score > One \div 10

\* C29: the list a strategy returns (greedy, backtracking or graph) never has
\* more than max_results entries and never holds two matches for the same
\* recipe id
C29_AtMostMaxResultsNoDuplicate ==
    (call.op \in {"find_recipes_greedy", "find_optimal_recipes", "recommend_recipes_graph"}
     /\ response # NoResponse) =>
        /\ Len(response.value) <= call.max_results
        /\ \A i, j \in 1..Len(response.value) :
               response.value[i].recipe.id = response.value[j].recipe.id => i = j

\* a backtracking result that is full although the store holds more recipes
\* than max_results, all of them filtered candidates
C29_Witness ==
    /\ call.op = "find_optimal_recipes"
    /\ response # NoResponse
    /\ call.max_results > 1
    /\ Len(response.value) = call.max_results
    /\ Len(filter_recipes_by_constraints(recipes, request)) > call.max_results

\* C30: after any sequence of add_ingredient and add_recipe calls the graph's
\* ingredient_nodes and recipe_nodes hold exactly the ids and the latest
\* objects of the store, and the matchers work on the store as it is: a
\* response counts the store's recipes and its matches carry the store's
\* current recipe objects
C30_CatalogAgreement ==
    /\ ingredient_nodes = ingredients
    /\ recipe_nodes = recipes
    /\ (call.op = "suggest_recipes" /\ ~response.raised) =>
           /\ response.value.total_recipes_analyzed = Len(recipes)
           /\ \A i \in 1..Len(Matches) :
                  /\ Matches[i].recipe.id \in IdSet(recipes)
                  /\ Matches[i].recipe = Lookup(recipes, Matches[i].recipe.id)

\* b was added before a, a has been submitted again, both recipes are in the
\* store and a response with a match has been built on it
C30_Witness ==
    /\ Ids(ingredients) = << <<98>>, <<97>> >>
    /\ Lookup(ingredient_nodes, <<97>>) = IngARevised
    /\ Len(recipe_nodes) = 2
    /\ call.op = "suggest_recipes"
    /\ ~response.raised
    /\ Matches # <<>>
=============================================================================
